---- MODULE Spec2Model ----
(***************************************************************************)
(* A model of the patch verification engine of gen42-codemonkeys.          *)
(*                                                                         *)
(*  - the sandboxed runners of swe_bench/test_runner/test_execution.py     *)
(*    (execute_script_container, execute_script, run_swebench_test_local)  *)
(*    as a sequential process: specification Spec;                         *)
(*  - create_context_chunks of stages/context/localization.py, with its    *)
(*    merge loop taken one iteration at a time: specification SpecChunks;  *)
(*  - truncate_output of test_execution.py: specification SpecTruncate;    *)
(*  - create_patch of export_final_patches.py: specification SpecPatch;    *)
(*  - the batches of localization.py (_run_work) and of                    *)
(*    regression_test_execution.py over the store: specification SpecBatch;*)
(*  - the verification state machine, after section 4.5 of the             *)
(*    specification: specification SpecMachine;                            *)
(*  - two calls of the runners for one problem, one after the other, to    *)
(*    compare what they return and the trees they run the script on:       *)
(*    specification SpecPair;                                              *)
(*  - run_regression_test_execution_for_patches of                         *)
(*    regression_test_execution.py with its thread pool and the logs its   *)
(*    test runs leave: specification SpecRegression;                       *)
(*  - _run_work of localization.py on one file, with the parsing of the    *)
(*    model's response: specification SpecWork;                            *)
(*  - ExecutionOutput.render_stdout of test_execution.py: specification    *)
(*    SpecRender;                                                          *)
(*  - get_test_command of swe_bench_verified.py: specification SpecCommand.*)
(***************************************************************************)
EXTENDS Integers, Sequences, FiniteSets, TLC

VARIABLES
    \* ---- the runners (test_execution.py) ----
    pc,                 \* position of the running call; "idle" between calls
    call,               \* the arguments of the call and what its commands will answer
    result,             \* what the call returned or raised
    log,                \* the commands the call has run, in order, each with its
                        \* exit code (NoExitCode when it raised instead of exiting)
    patch_apply_exit_code,        \* exit code seen from git apply (NoExitCode: None)
    fuzzy_patch_apply_exit_code,  \* exit code seen from patch --fuzz (NoExitCode: None)
    held,               \* the disposable sandboxes currently acquired
    n_acquired,         \* sandboxes acquired by the call
    n_released,         \* sandboxes torn down by the call
    canonical,          \* the tree at the problem's repo location
    canonical0,         \* the tree at the problem's repo location before any call
    temp_tree,          \* the disposable tree of the call
    script_tree,        \* the tree on which the script was executed
    cmd_idx,            \* run_swebench_test_local: index into GIT_APPLY_CMDS
    \* ---- create_context_chunks (localization.py) ----
    cpc,                \* position inside create_context_chunks
    file_content,       \* argument: the file's text, a sequence of characters
    locations,          \* argument: the location strings
    context_lines,      \* argument: the radius
    chunks,             \* the list chunks: the candidate windows, one per valid
                        \* line number, those merged into with their new content
    rest,               \* chunks[1:] not yet visited by the merge loop
    current_chunk,      \* the merge loop's current_chunk
    combined_chunks,    \* the merge loop's combined_chunks
    returned,           \* RelevantChunks.chunks as returned
    last_step,          \* what the last loop iteration saw and did
    window_end,         \* per candidate window: its end_line
    merged_into,        \* per chunk built so far (the current one last): the
                        \* candidate windows merged into it
    \* ---- truncate_output (test_execution.py) ----
    tpc,                \* "idle" before the call, "done" after it
    output,             \* argument: the text, a sequence of characters
    max_length,         \* argument: the budget
    truncated,          \* the text returned
    \* ---- create_patch (export_final_patches.py) ----
    ppc,                \* "idle" before the call, "done" after it
    file_names,         \* argument: the file names
    old_contents,       \* argument: the old text of each file
    new_contents,       \* argument: the new text of each file
    edits,              \* Patch.edits as returned
    \* ---- the batches of localization.py and regression_test_execution.py ----
    stage,              \* the batch that is running, "none" between batches
    runs,               \* batches run to their end
    pending,            \* units of the running batch not yet handed to a worker
    workers,            \* per unit: where the worker that handles it stands, and
                        \* the requests, tests and writes it has made
    patch_data,         \* per problem: the patch texts of its generated test
                        \* execution, which the store loads
    failed,             \* units of the running batch whose worker raised
    loc_store,          \* file paths whose relevant chunks the store holds
    reg_store,          \* problems whose regression results the store holds
    test_logs,          \* run ids whose test_output.txt exists under logs/
    n_requests,         \* completion requests made by the running batch
    n_tests,            \* run_tests calls made by the running batch
    n_writes,           \* store writes made by the running batch
    last_unit,          \* the unit handled last: whether its result existed, and
                        \* the requests, tests and writes its worker made
    completed,          \* stages of which a batch ran to its end with no unit failed
    \* ---- the verification state machine (specification, section 4.5) ----
    vstate,             \* VerificationState: AwaitingEdit, AwaitingDecision, Done,
                        \* or Failed after a fatal failure
    current_patch,      \* the current patch, Absent when there is none
    current_test_script,  \* the current test script
    iteration_count,    \* turns taken: judgments received
    trace,              \* the state at the start and after every turn
    judgments,          \* the oracle's judgments so far
    format_retries,     \* formatting-error prompts sent for the awaited edit
    edited_tree,        \* the patches on the edited tree of the last sandbox run
    ran_script,         \* the script of the last sandbox run
    n_patches,          \* patches received so far
    n_scripts,          \* test scripts received so far, the initial one included
    exhausted,          \* the turn budget forced the terminal state
    output_patch,       \* the patch of the terminal result
    last_judged,        \* the last judgment with the patch and the script it saw
    last_action,        \* the step taken last
    m_steps,            \* steps taken
    \* ---- two calls of the runners for one problem, one after the other ----
    first_call,         \* the arguments and answers of the first call
    second_call,        \* the arguments and answers of the second call
    n_calls,            \* calls started so far
    first_result,       \* what the first call returned or raised
    first_script_tree,  \* the tree on which the first call executed the script
    \* ---- run_regression_test_execution_for_patches (regression_test_execution.py) ----
    gpc,                \* position inside the call; "idle" before it, "done" after it
    patches,            \* argument: the patch texts, in order
    num_threads_per_problem,  \* config: the workers of the thread pool
    chosen_tests,       \* the test selection get_chosen_tests returned
    run_logs,           \* per run id: the test_output.txt under logs/, if any
    futures,            \* the futures, in the order of submission
    completion_order,   \* the indices of the futures, in the order they completed
    collected_from,     \* per entry of passing_tests_per_edit: the future it came from
    passing_tests_on_empty_diff,  \* as returned
    passing_tests_per_edit,       \* as returned
    last_get,           \* the get_passing_tests call that ended last, with its result
    \* ---- _run_work of localization.py on one file, with the model's response ----
    wpc,                \* where _run_work is: "idle" before the call,
                        \* "call_completions", "parse", "save", then "done" when
                        \* it returned or "raised" when it raised
    work_file,          \* the file of the work item
    response,           \* what the model answers to a request: a sequence of tokens
    decision,           \* the result the store holds for the file, if any
    n_completions,      \* requests made to the model
    relevant_chunks,    \* what create_context_chunks returned to _run_work
    \* ---- ExecutionOutput.render_stdout (test_execution.py) ----
    xpc,                \* "idle" before the call, "done" after it
    self_stdout,        \* self.stdout: <<>> for None, else <<text>>
    self_timed_out,     \* self.timed_out
    max_chars,          \* argument: <<>> for None, else <<budget>>
    rendered,           \* the text returned
    \* ---- get_test_command (swe_bench_verified.py) ----
    qpc,                \* "idle" before the call, "done" after it
    repo,               \* problem.repo, a sequence of word pieces
    test_command        \* the command returned

runner_vars == <<pc, call, result, log, patch_apply_exit_code,
                 fuzzy_patch_apply_exit_code, held, n_acquired, n_released,
                 canonical, canonical0, temp_tree, script_tree, cmd_idx>>

chunk_vars == <<cpc, file_content, locations, context_lines, chunks, rest,
                current_chunk, combined_chunks, returned, last_step, window_end,
                merged_into>>

truncate_vars == <<tpc, output, max_length, truncated>>

patch_vars == <<ppc, file_names, old_contents, new_contents, edits>>

batch_vars == <<stage, runs, pending, workers, patch_data, failed, loc_store,
                reg_store, test_logs, n_requests, n_tests, n_writes, last_unit,
                completed>>

machine_vars == <<vstate, current_patch, current_test_script, iteration_count,
                  trace, judgments, format_retries, edited_tree, ran_script,
                  n_patches, n_scripts, exhausted, output_patch, last_judged,
                  last_action, m_steps>>

pair_vars == <<first_call, second_call, n_calls, first_result, first_script_tree>>

regr_vars == <<gpc, patches, num_threads_per_problem, chosen_tests, run_logs, futures,
               completion_order, collected_from, passing_tests_on_empty_diff,
               passing_tests_per_edit, last_get>>

work_vars == <<wpc, work_file, response, decision, n_completions, relevant_chunks>>

render_vars == <<xpc, self_stdout, self_timed_out, max_chars, rendered>>

command_vars == <<qpc, repo, test_command>>

vars == <<runner_vars, chunk_vars, truncate_vars, patch_vars, batch_vars,
          machine_vars, pair_vars, regr_vars, work_vars, render_vars, command_vars>>

\* What the actions of one part of the model leave unchanged.
outside_runner == <<chunk_vars, truncate_vars, patch_vars, batch_vars, machine_vars,
          pair_vars, regr_vars, work_vars, render_vars, command_vars>>
outside_chunks == <<runner_vars, truncate_vars, patch_vars, batch_vars, machine_vars,
          pair_vars, regr_vars, work_vars, render_vars, command_vars>>
outside_truncate == <<runner_vars, chunk_vars, patch_vars, batch_vars, machine_vars,
          pair_vars, regr_vars, work_vars, render_vars, command_vars>>
outside_patch == <<runner_vars, chunk_vars, truncate_vars, batch_vars, machine_vars,
          pair_vars, regr_vars, work_vars, render_vars, command_vars>>
outside_batch == <<runner_vars, chunk_vars, truncate_vars, patch_vars, machine_vars,
          pair_vars, regr_vars, work_vars, render_vars, command_vars>>
outside_machine == <<runner_vars, chunk_vars, truncate_vars, patch_vars, batch_vars,
          pair_vars, regr_vars, work_vars, render_vars, command_vars>>
outside_command == <<runner_vars, chunk_vars, truncate_vars, patch_vars, batch_vars,
          machine_vars, pair_vars, regr_vars, work_vars, render_vars>>
outside_render == <<runner_vars, chunk_vars, truncate_vars, patch_vars, batch_vars,
          machine_vars, pair_vars, regr_vars, work_vars, command_vars>>
outside_work == <<runner_vars, chunk_vars, truncate_vars, patch_vars, batch_vars,
          machine_vars, pair_vars, regr_vars, render_vars, command_vars>>
outside_regr == <<runner_vars, chunk_vars, truncate_vars, patch_vars, batch_vars,
          machine_vars, pair_vars, work_vars, render_vars, command_vars>>
outside_pair == <<chunk_vars, truncate_vars, patch_vars, batch_vars, machine_vars,
          regr_vars, work_vars, render_vars, command_vars>>

(***************************************************************************)
(* Bounds of the model.                                                    *)
(***************************************************************************)
MaxExitCode == 1
MaxFileLen == 5
MaxLocations == 3
MaxRadius == 2
MaxOutputLen == 10
MaxBudget == 4
MaxContentLen == 2
MaxRuns == 3
TurnBudget == 3
MaxFormatRetries == 2
MaxPatches == 2
MaxThreads == 2
MaxMessageLen == 5
MaxRepoLen == 3

Min(a, b) == IF a <= b THEN a ELSE b
Max(a, b) == IF a >= b THEN a ELSE b

(***************************************************************************)
(*                              THE RUNNERS                                *)
(***************************************************************************)

\* Python's None for an exit code that no command has set.
NoExitCode == -1

\* Exit codes a process can report.
ExitCodes == 0..MaxExitCode

\* patch: None, the empty string, or a non-empty diff.
PatchValues == {"none", "empty", "diff"}

\* `patch is not None`
IsNotNone(patch) == patch # "none"

\* `if patch:` (a non-empty string)
Truthy(patch) == patch = "diff"

\* What running the script does: it exits with a code; it exits with a code
\* and its output is no UTF-8 text; it exceeds the timeout (the container then
\* still reports some code); or the call that runs it raises.
ScriptOutcomes ==
    [kind : {"exit", "undecodable", "timeout"}, code : ExitCodes]
    \cup {[kind |-> "error", code |-> 1]}

\* The exit code the script's process reports, if it runs to its end.
ScriptExitCode(out) ==
    IF out.kind \in {"exit", "undecodable"} THEN out.code ELSE NoExitCode

\* The arguments of a call, with the answers its commands will give:
\*   primary  exit code of git apply,
\*   fuzzy    exit code of patch --fuzz,
\*   raises   whether the patch-application block raises an exception,
\*   script   what running the script does.
\* (Without a patch no patch command runs, and their answers are left at 0. A
\* timeout comes with an exit code in the container only: subprocess's
\* TimeoutExpired carries none, and the code is left at 1.)
CallRecords ==
    {c \in [fn : {"execute_script_container", "execute_script",
                  "run_swebench_test_local"},
            patch : PatchValues,
            return_error_as_execution_output : BOOLEAN,
            primary : {0, 1},
            fuzzy : {0, 1},
            raises : BOOLEAN,
            script : ScriptOutcomes] :
        /\ c.patch = "none" => (c.primary = 0 /\ c.fuzzy = 0 /\ ~c.raises)
        /\ (c.fn # "execute_script_container" /\ c.script.kind = "timeout")
           => c.script.code = 1}

\* The calls of a single run: one record for the calls that differ only in an
\* answer that is not asked for, which is left at 0, or at an exit with code 0
\* for the script. The fallback does not run after a git apply that exited 0;
\* a patch block that raises is left before its commands have answered (in the
\* container it raises at the fallback when git apply exited non-zero), and so
\* is the container runner as a whole; the execute_script that
\* run_swebench_test_local calls never comes to its fallback (line 182 sets
\* patch_apply_exit_code = 0); the script does not run when the container's two
\* commands failed, nor when execute_script returns from its except clause.
Calls ==
    {c \in CallRecords :
        /\ c.primary = 0 => c.fuzzy = 0
        /\ c.raises => c.fuzzy = 0
        /\ c.fn = "run_swebench_test_local" => c.fuzzy = 0
        /\ (c.raises /\ c.fn # "execute_script_container") => c.primary = 0
        /\ (c.fn = "execute_script_container" /\ (c.raises \/ c.fuzzy # 0))
           => c.script = [kind |-> "exit", code |-> 0]
        /\ (c.fn = "execute_script" /\ c.raises /\ c.return_error_as_execution_output)
           => c.script = [kind |-> "exit", code |-> 0]}

NoCall ==
    [fn |-> "none", patch |-> "none", return_error_as_execution_output |-> FALSE,
     primary |-> 0, fuzzy |-> 0, raises |-> FALSE,
     script |-> [kind |-> "exit", code |-> 0]]

ExecutionOutput(stdout, exit_code, timed_out) ==
    [kind |-> "output", stdout |-> stdout, exit_code |-> exit_code,
     timed_out |-> timed_out]

Raised(what) ==
    [kind |-> "raise", stdout |-> what, exit_code |-> NoExitCode, timed_out |-> FALSE]

NoResult ==
    [kind |-> "none", stdout |-> "", exit_code |-> NoExitCode, timed_out |-> FALSE]

\* What run_swebench_test_local returns: the verdict of get_eval_report and the
\* stdout of the ExecutionOutput it got from execute_script.
SWEBenchTestResult(resolved, test_output) ==
    [kind |-> "test_result", resolved |-> resolved, test_output |-> test_output]

(***************************************************************************)
(* Trees are sets of marks: "dirty" (the working tree differs from         *)
(* base_commit), "patch" (all or some of the patch's changes are in the    *)
(* tree), "patch.diff" and                                                 *)
(* "reproduce_script.py" (the files the runner writes).                    *)
(***************************************************************************)
TrackedChanges == {"dirty", "patch"}

\* The exit code of git when it dies (a base_commit the copy does not have).
GitFatal == 128

\* git reset --hard base_commit, whose exit code the runner does not look at:
\* when it exits 0 the changes to tracked files go and the untracked files stay,
\* among them the files a patch created (added: the patch's changes in the tree
\* are files it added); when it dies the tree is left as it was.
GitResetHard(tree, exit_code, added) ==
    IF exit_code # 0 THEN tree
    ELSE IF added THEN tree \ {"dirty"}
    ELSE tree \ TrackedChanges

\* git apply without --reject is all or nothing: the changes land when the
\* command exits 0.
ApplyPatch(tree, exit_code) == IF exit_code = 0 THEN tree \cup {"patch"} ELSE tree

\* patch and git apply --reject apply the hunks they can: when they exit
\* non-zero, those that applied (landed: there were some) stay in the tree.
ApplyHunks(tree, exit_code, landed) ==
    IF exit_code = 0 \/ (exit_code # NoExitCode /\ landed)
    THEN tree \cup {"patch"}
    ELSE tree

(***************************************************************************)
(* Leaving a `with` block releases what it acquired, whether the block is  *)
(* left by a return or by an exception.                                    *)
(***************************************************************************)
LeaveWithReturnOnly(sandbox, how) == IF how = "return" THEN held \ {sandbox} ELSE held

LeaveWith(sandbox, how) == held \ {sandbox}

\* Where a runner that ends with r hands over: to its caller
\* run_swebench_test_local when it returned to it (line 312), else the call is
\* over, an exception going through run_swebench_test_local as well.
ReturnTo(r) ==
    IF call.fn = "run_swebench_test_local" /\ r.kind # "raise"
    THEN "loc_report"
    ELSE "idle"

\* The with-block is left with result r: the sandbox is torn down.
Finish(sandbox, r) ==
    LET how == IF r.kind = "raise" THEN "raise" ELSE "return" IN
    /\ result' = r
    /\ held' = LeaveWith(sandbox, how)
    /\ n_released' = n_released + Cardinality(held \ held')
    /\ pc' = ReturnTo(r)

\* One entry of the log.
Ran(cmd, exit_code) == [cmd |-> cmd, exit_code |-> exit_code]

\* A call starts: the history of the previous call is cleared.
Begin(c, sandboxes, tree) ==
    /\ call' = c
    /\ result' = NoResult
    /\ log' = <<>>
    /\ patch_apply_exit_code' = NoExitCode
    /\ fuzzy_patch_apply_exit_code' = NoExitCode
    /\ held' = held \cup sandboxes
    /\ n_acquired' = Cardinality(sandboxes)
    /\ n_released' = 0
    /\ temp_tree' = tree
    /\ script_tree' = {"none"}

(***************************************************************************)
(* execute_script_container                                                *)
(***************************************************************************)
ContainerCalls ==
    {c \in Calls : c.fn = "execute_script_container" /\ c.patch \in {"none", "diff"}}

\* with SWEBenchContainerAPI(log_dir, problem) as container: the container holds
\* the problem's code at its base commit.
EC_Begin(c) ==
    /\ Begin(c, {"container"}, {})
    /\ pc' = IF IsNotNone(c.patch) THEN "ec_apply" ELSE "ec_script"
    /\ UNCHANGED <<canonical, canonical0, cmd_idx>>

EC_Enter ==
    /\ pc = "idle"
    /\ \E c \in ContainerCalls : EC_Begin(c)

\* Where the container runner goes after git apply.
AfterPrimaryIgnoringFailure(exit_code) == "ec_script"

AfterPrimary(exit_code) == IF exit_code # 0 THEN "ec_fuzzy" ELSE "ec_script"

\* container.write_file(patch, /tmp/patch.diff), git apply -v /tmp/patch.diff.
\* Neither is inside a try: when one of them raises, the call raises whatever
\* return_error_as_execution_output is.
EC_GitApply ==
    /\ pc = "ec_apply"
    /\ IF call.raises /\ call.primary = 0
       THEN /\ \E raised_at \in {"write patch.diff", "git apply"} :
                  IF raised_at = "git apply"
                  THEN /\ log' = Append(log, Ran("git apply", NoExitCode))
                       /\ temp_tree' = temp_tree \cup {"patch.diff"}
                  ELSE UNCHANGED <<log, temp_tree>>
            /\ Finish("container", Raised("Exception"))
            /\ UNCHANGED patch_apply_exit_code
       ELSE /\ log' = Append(log, Ran("git apply", call.primary))
            /\ patch_apply_exit_code' = call.primary
            /\ temp_tree' = ApplyPatch(temp_tree \cup {"patch.diff"}, call.primary)
            /\ pc' = AfterPrimary(call.primary)
            /\ UNCHANGED <<result, held, n_released>>
    /\ UNCHANGED <<call, fuzzy_patch_apply_exit_code, n_acquired, canonical,
                   canonical0, script_tree, cmd_idx>>

\* patch --batch --fuzz=5 -p1 -i /tmp/patch.diff, which exits or raises, and
\* what follows its failure
EC_Fuzzy ==
    /\ pc = "ec_fuzzy"
    /\ IF call.raises
       THEN /\ log' = Append(log, Ran("patch --fuzz", NoExitCode))
            /\ Finish("container", Raised("Exception"))
            /\ UNCHANGED <<fuzzy_patch_apply_exit_code, temp_tree>>
       ELSE /\ log' = Append(log, Ran("patch --fuzz", call.fuzzy))
            /\ fuzzy_patch_apply_exit_code' = call.fuzzy
            /\ \E landed \in BOOLEAN :
                  temp_tree' = ApplyHunks(temp_tree, call.fuzzy, landed)
            /\ IF call.fuzzy # 0
               THEN IF call.return_error_as_execution_output
                    THEN Finish("container",
                                ExecutionOutput("Could not apply patch to repository",
                                                1, FALSE))
                    ELSE Finish("container", Raised("ValueError"))
               ELSE /\ pc' = "ec_script"
                    /\ UNCHANGED <<result, held, n_released>>
    /\ UNCHANGED <<call, patch_apply_exit_code, n_acquired, canonical, canonical0,
                   script_tree, cmd_idx>>

\* The exit code of the container runner's ExecutionOutput.
ContainerExitCode(out) == IF out.kind # "timeout" THEN out.code ELSE 1

\* container.write_file(script, ...), exec_run_with_timeout(..., timeout=int(timeout)),
\* the ExecutionOutput. Nothing here is inside a try: the call raises when the
\* write raises (the script is not written), when int(timeout) or the start of
\* the command raises (started: it did not; the script is written and not run;
\* int() raises a ValueError, a TypeError or an OverflowError), and when the run
\* or out.output.decode("utf-8") (line 137) raises; else it returns the
\* ExecutionOutput of lines 139-144.
EC_RunScript ==
    /\ pc = "ec_script"
    /\ \E write_raises \in BOOLEAN, started \in BOOLEAN :
          IF write_raises
          THEN /\ Finish("container", Raised("Exception"))
               /\ UNCHANGED <<log, temp_tree, script_tree>>
          ELSE IF call.script.kind = "error" /\ ~started
          THEN /\ temp_tree' = temp_tree \cup {"reproduce_script.py"}
               /\ \E what \in {"ValueError", "TypeError", "OverflowError", "Exception"} :
                     Finish("container", Raised(what))
               /\ UNCHANGED <<log, script_tree>>
          ELSE /\ log' = Append(log, Ran("script", ScriptExitCode(call.script)))
               /\ temp_tree' = temp_tree \cup {"reproduce_script.py"}
               /\ script_tree' = temp_tree
               /\ Finish("container",
                         IF call.script.kind = "error" THEN Raised("Exception")
                         ELSE IF call.script.kind = "undecodable"
                         THEN Raised("UnicodeDecodeError")
                         ELSE ExecutionOutput("script output",
                                              ContainerExitCode(call.script),
                                              call.script.kind = "timeout"))
    /\ UNCHANGED <<call, patch_apply_exit_code, fuzzy_patch_apply_exit_code,
                   n_acquired, canonical, canonical0, cmd_idx>>

(***************************************************************************)
(* execute_script                                                          *)
(***************************************************************************)
FsCalls == {c \in Calls : c.fn = "execute_script" /\ c.patch \in {"none", "diff"}}

\* with tempfile.TemporaryDirectory() as temp_dir: shutil.copytree(repo_location, ...),
\* called by the user. The copy is made outside every try block: when it
\* raises (copied: it did not), the call raises whatever
\* return_error_as_execution_output is, and the temporary directory is removed
\* (copytree raises before it copied anything, or after it copied what it could).
FS_Begin(c) ==
    /\ \E copied \in BOOLEAN :
          IF copied
          THEN /\ Begin(c, {"tempdir"}, canonical)
               /\ pc' = IF IsNotNone(c.patch) THEN "fs_apply" ELSE "fs_script"
          ELSE /\ call' = c
               /\ result' = Raised("Error")
               /\ log' = <<>>
               /\ patch_apply_exit_code' = NoExitCode
               /\ fuzzy_patch_apply_exit_code' = NoExitCode
               /\ held' = LeaveWith("tempdir", "raise")
               /\ n_acquired' = 1
               /\ n_released' = 1
               /\ temp_tree' \in {{}, canonical}
               /\ script_tree' = {"none"}
               /\ pc' = "idle"
    /\ UNCHANGED <<canonical, canonical0, cmd_idx>>

\* execute_script is entered: by the user, or from lines 311-312 of
\* run_swebench_test_local (with its patch, a string, and the default
\* return_error_as_execution_output). There problem.repo_location is read first:
\* for a problem built from a dataset row it raises AttributeError, as it did in
\* every iteration of the loop (a non-empty patch and an empty log: no command
\* was started), and the call raises before execute_script is entered. For
\* every other problem the copy is made, or raises.
FS_Enter ==
    \/ /\ pc = "idle"
       /\ \E c \in FsCalls : FS_Begin(c)
    \/ /\ pc = "loc_exec"
       /\ \E entry \in {"no repo_location", "copytree raises", "copied"} :
             IF entry = "no repo_location"
             THEN /\ log = <<>>
                  /\ result' = Raised("AttributeError")
                  /\ pc' = "idle"
                  /\ UNCHANGED <<held, n_acquired, n_released, temp_tree>>
             ELSE IF entry = "copytree raises"
             THEN /\ ~(Truthy(call.patch) /\ log = <<>>)
                  /\ result' = Raised("Error")
                  /\ held' = LeaveWith("tempdir", "raise")
                  /\ n_acquired' = n_acquired + 1
                  /\ n_released' = n_released + 1
                  /\ temp_tree' \in {{}, canonical}
                  /\ pc' = "idle"
             ELSE /\ ~(Truthy(call.patch) /\ log = <<>>)
                  /\ held' = held \cup {"tempdir"}
                  /\ n_acquired' = n_acquired + 1
                  /\ temp_tree' = canonical
                  /\ pc' = IF IsNotNone(call.patch) THEN "fs_apply" ELSE "fs_script"
                  /\ UNCHANGED <<result, n_released>>
       /\ UNCHANGED <<call, log, patch_apply_exit_code,
                      fuzzy_patch_apply_exit_code, canonical, canonical0,
                      script_tree, cmd_idx>>

\* patch_apply_exit_code as execute_script sets it after the git commands.
FsPatchApplyExitCode(git_exit_code) == 0

\* The statements of the try block of lines 168-173, any of which may raise.
TryStatements == {"git reset", "write patch.diff", "git apply"}

\* The try block of execute_script up to the statement that raises, if one
\* does: git reset --hard (check=False, its exit code is not read), the write
\* of patch.diff (written: the file was created before the write raised), git
\* apply -v (check=False).
AfterTry(tree, entries, raised_at, reset_code, added, written, git_exit_code) ==
    IF raised_at = "git reset"
    THEN [tree |-> tree, log |-> Append(entries, Ran("git reset", NoExitCode))]
    ELSE LET tree1 == GitResetHard(tree, reset_code, added)
             log1 == Append(entries, Ran("git reset", reset_code))
         IN  IF raised_at = "write patch.diff"
             THEN [tree |-> IF written THEN tree1 \cup {"patch.diff"} ELSE tree1,
                   log |-> log1]
             ELSE IF raised_at = "git apply"
             THEN [tree |-> tree1 \cup {"patch.diff"},
                   log |-> Append(log1, Ran("git apply", NoExitCode))]
             ELSE [tree |-> ApplyPatch(tree1 \cup {"patch.diff"}, git_exit_code),
                   log |-> Append(log1, Ran("git apply", git_exit_code))]

\* The patch block of execute_script: the try block; its except clause, which
\* returns only when return_error_as_execution_output is set; then
\* patch_apply_exit_code = 0 and the fallback that depends on it.
FS_Apply ==
    /\ pc = "fs_apply"
    /\ \E raised_at \in IF call.raises THEN TryStatements ELSE {"none"},
          reset_code \in {0, GitFatal} :
       \E added \in IF "patch" \in temp_tree THEN BOOLEAN ELSE {FALSE},
          written \in IF raised_at = "write patch.diff" THEN BOOLEAN ELSE {TRUE} :
          LET flag == call.return_error_as_execution_output
              code == FsPatchApplyExitCode(call.primary)
              try == AfterTry(temp_tree, log, raised_at, reset_code, added, written,
                              call.primary)
          IN  IF call.raises /\ flag
              THEN /\ log' = try.log
                   /\ temp_tree' = try.tree
                   /\ Finish("tempdir",
                             ExecutionOutput("Error applying patch", 1, FALSE))
                   /\ UNCHANGED <<patch_apply_exit_code, fuzzy_patch_apply_exit_code>>
              ELSE IF code # 0
              THEN /\ log' = Append(try.log, Ran("patch --fuzz", call.fuzzy))
                   /\ patch_apply_exit_code' = code
                   /\ fuzzy_patch_apply_exit_code' = call.fuzzy
                   /\ \E landed \in BOOLEAN :
                         temp_tree' = ApplyHunks(try.tree, call.fuzzy, landed)
                   /\ IF call.fuzzy # 0
                      THEN IF flag
                           THEN Finish("tempdir",
                                       ExecutionOutput(
                                           "Could not apply patch to repository",
                                           1, FALSE))
                           ELSE Finish("tempdir", Raised("ValueError"))
                      ELSE /\ pc' = "fs_script"
                           /\ UNCHANGED <<result, held, n_released>>
              ELSE /\ log' = try.log
                   /\ patch_apply_exit_code' = code
                   /\ temp_tree' = try.tree
                   /\ pc' = "fs_script"
                   /\ UNCHANGED <<result, held, n_released,
                                  fuzzy_patch_apply_exit_code>>
    /\ UNCHANGED <<call, n_acquired, canonical, canonical0, script_tree, cmd_idx>>

\* The ExecutionOutput of the filesystem runner for what running the script did.
FsScriptResult(out) ==
    IF out.kind = "exit" THEN ExecutionOutput("script output", out.code, FALSE)
    ELSE IF out.kind = "timeout"
    THEN ExecutionOutput("Script execution timed out", 1, TRUE)
    ELSE ExecutionOutput("Error running script command", 1, FALSE)

\* The outer try of lines 213-262: the write of reproduce_script.py, which the
\* outer except clause alone covers (when it raises the script is not run;
\* created: open() had made the file before the write raised), then the inner
\* try with its own except clauses: subprocess.run(..., timeout=int(timeout)),
\* where an exception comes before the script was started (int(timeout), or the
\* process cannot be made) or after it ran (started: decoding its output).
FS_RunScript ==
    /\ pc = "fs_script"
    /\ \E write_raises \in BOOLEAN, created \in BOOLEAN, started \in BOOLEAN :
          IF write_raises
          THEN /\ Finish("tempdir", ExecutionOutput("Error executing script", 1, FALSE))
               /\ temp_tree' = IF created
                               THEN temp_tree \cup {"reproduce_script.py"}
                               ELSE temp_tree
               /\ UNCHANGED <<log, script_tree>>
          ELSE IF call.script.kind = "error" /\ ~started
          THEN /\ temp_tree' = temp_tree \cup {"reproduce_script.py"}
               /\ Finish("tempdir", FsScriptResult(call.script))
               /\ UNCHANGED <<log, script_tree>>
          ELSE /\ log' = Append(log, Ran("script", ScriptExitCode(call.script)))
               /\ temp_tree' = temp_tree \cup {"reproduce_script.py"}
               /\ script_tree' = temp_tree
               /\ Finish("tempdir", FsScriptResult(call.script))
    /\ UNCHANGED <<call, patch_apply_exit_code, fuzzy_patch_apply_exit_code,
                   n_acquired, canonical, canonical0, cmd_idx>>

(***************************************************************************)
(* run_swebench_test_local                                                 *)
(***************************************************************************)
LocalCalls ==
    {c \in Calls : /\ c.fn = "run_swebench_test_local"
                   /\ c.patch # "none"
                   /\ ~c.return_error_as_execution_output}

GIT_APPLY_CMDS ==
    <<"git apply --verbose", "git apply --verbose --reject",
      "patch --batch --fuzz=8 -p1 -l">>

\* if patch: a temporary directory receives patch.diff (written: the write did
\* not raise; when open() or write() raises, the with-block is left by the
\* exception, no try being around it), then the loop over GIT_APPLY_CMDS starts. Otherwise
\* execute_script is called at once.
LOC_Enter ==
    /\ pc = "idle"
    /\ \E c \in LocalCalls, written \in BOOLEAN :
          IF Truthy(c.patch) /\ written
          THEN /\ Begin(c, {"patchdir"}, {})
               /\ pc' = "loc_cmd"
          ELSE IF Truthy(c.patch)
          THEN /\ call' = c
               /\ \E what \in {"OSError", "UnicodeEncodeError"} : result' = Raised(what)
               /\ log' = <<>>
               /\ patch_apply_exit_code' = NoExitCode
               /\ fuzzy_patch_apply_exit_code' = NoExitCode
               /\ held' = LeaveWith("patchdir", "raise")
               /\ n_acquired' = 1
               /\ n_released' = 1
               /\ temp_tree' = {}
               /\ script_tree' = {"none"}
               /\ pc' = "idle"
          ELSE /\ written
               /\ Begin(c, {}, {})
               /\ pc' = "loc_exec"
    /\ cmd_idx' = 1
    /\ UNCHANGED <<canonical, canonical0>>

\* What the k-th command of GIT_APPLY_CMDS, run as `<cmd> <patch_path>` in
\* repo_location, does to the tree there: git apply --verbose is all or nothing;
\* git apply --verbose --reject leaves the hunks that applied; patch has no -i,
\* takes patch_path for the file to patch and reads its diff from the standard
\* input, so it changes nothing in the tree whatever it exits with.
AfterApplyCmd(k, tree, exit_code, landed) ==
    IF k = 1 THEN ApplyPatch(tree, exit_code)
    ELSE IF k = 2 THEN ApplyHunks(tree, exit_code, landed)
    ELSE tree

\* One iteration of `for cmd in GIT_APPLY_CMDS`: subprocess.run(full_cmd, shell=True,
\* cwd=problem.repo_location, check=False), which exits 0, exits non-zero or
\* raises; `break` follows whenever it did not raise. What raises is
\* subprocess.run, or, for a problem built from a dataset row, reading
\* problem.repo_location before it, in every iteration alike (started: the
\* command was handed to subprocess.run).
LOC_TryCmd ==
    /\ pc = "loc_cmd"
    /\ \E exit_code \in {0, 1, NoExitCode}, landed \in BOOLEAN,
          started \in BOOLEAN :
          /\ exit_code # NoExitCode => started
          /\ cmd_idx > 1 => (started <=> log # <<>>)
          /\ log' = IF started
                    THEN Append(log, Ran(GIT_APPLY_CMDS[cmd_idx], exit_code))
                    ELSE log
          /\ canonical' = AfterApplyCmd(cmd_idx, canonical, exit_code, landed)
          /\ IF exit_code = NoExitCode /\ cmd_idx < Len(GIT_APPLY_CMDS)
             THEN /\ cmd_idx' = cmd_idx + 1
                  /\ UNCHANGED <<pc, held, n_released>>
             ELSE /\ held' = LeaveWith("patchdir", "return")
                  /\ n_released' = n_released + Cardinality(held \ held')
                  /\ pc' = "loc_exec"
                  /\ UNCHANGED cmd_idx
    /\ UNCHANGED <<call, result, patch_apply_exit_code, fuzzy_patch_apply_exit_code,
                   n_acquired, canonical0, temp_tree, script_tree>>

\* Lines 313-336, once execute_script has returned: result.stdout is written to
\* test_output.text under log_dir, get_eval_report grades it, and the call
\* returns a SWEBenchTestResult.
LOC_Report ==
    /\ pc = "loc_report"
    /\ \E resolved \in BOOLEAN : result' = SWEBenchTestResult(resolved, result.stdout)
    /\ pc' = "idle"
    /\ UNCHANGED <<call, log, patch_apply_exit_code, fuzzy_patch_apply_exit_code,
                   held, n_acquired, n_released, canonical, canonical0, temp_tree,
                   script_tree, cmd_idx>>

(***************************************************************************)
(*                         create_context_chunks                           *)
(***************************************************************************)

\* The characters of a file: one that is no line break, and the line break.
Chars == {"a", "\n"}

FileContents == UNION {[1..n -> Chars] : n \in 0..MaxFileLen}

\* str.split("\n"): the pieces between the line breaks; a text without a line
\* break is one piece, the empty text included.
RECURSIVE Split(_)
Split(s) ==
    IF \A i \in 1..Len(s) : s[i] # "\n"
    THEN <<s>>
    ELSE LET i == CHOOSE k \in 1..Len(s) :
                      s[k] = "\n" /\ \A j \in 1..(k - 1) : s[j] # "\n"
         IN  <<SubSeq(s, 1, i - 1)>> \o Split(SubSeq(s, i + 1, Len(s)))

\* seq[lo:hi] for 0 <= lo: the elements at 0-based positions lo .. hi-1, the
\* upper end clipped to the length.
PySlice(seq, lo, hi) == SubSeq(seq, lo + 1, Min(hi, Len(seq)))

\* A location string: its prefix up to the first colon, and the text after it,
\* which int() either accepts (is_int, with its value) or rejects.
LineNumberRange == 0..(MaxFileLen + 2)

LocationStrings ==
    {[prefix |-> "line:", is_int |-> TRUE, value |-> n] : n \in LineNumberRange}
    \cup {[prefix |-> "line:", is_int |-> FALSE, value |-> 0],
          [prefix |-> "content:", is_int |-> FALSE, value |-> 0],
          [prefix |-> "content:", is_int |-> TRUE, value |-> 1]}

\* The location lists, up to order and repetition (the code collects the line
\* numbers into a set).
LocationLists == {L \in SUBSET LocationStrings : Cardinality(L) <= MaxLocations}

\* for loc in locations: if loc.startswith("line:"): try int(...) except ValueError
LineNumbers(locs) ==
    {loc.value : loc \in {l \in locs : l.prefix = "line:" /\ l.is_int}}

\* `except ValueError: continue` around int(): the error of a text that is no
\* integer is caught inside the loop over the locations.
ValueErrorEscapes == FALSE

ValueErrorCaught == TRUE

\* The loop over the locations raises: int() rejected the text of a "line:"
\* location and nothing caught the error.
ParseRaises(locs) ==
    \E l \in locs : l.prefix = "line:" /\ ~l.is_int /\ ~ValueErrorCaught

\* The elements of a finite set of integers in descending order.
RECURSIVE Descending(_)
Descending(S) ==
    IF S = {} THEN <<>>
    ELSE LET m == CHOOSE x \in S : \A y \in S : y <= x
         IN  <<m>> \o Descending(S \ {m})

\* sorted(line_numbers)
RECURSIVE Sorted(_)
Sorted(S) ==
    IF S = {} THEN <<>>
    ELSE LET m == CHOOSE x \in S : \A y \in S : x <= y
         IN  <<m>> \o Sorted(S \ {m})

ContextChunk(line_number, content) ==
    [line_number |-> line_number, content |-> content]

\* start_line and end_line of the window around line_num
StartLine(line_num, radius) == Max(1, line_num - radius)
EndLine(lines, line_num, radius) == Min(Len(lines), line_num + radius)

\* The loop that creates the initial chunks: one per line number within bounds,
\* in the order given.
RECURSIVE InitialChunks(_, _, _)
InitialChunks(lines, nums, radius) ==
    IF nums = <<>> THEN <<>>
    ELSE LET line_num == Head(nums)
             start_line == StartLine(line_num, radius)
             end_line == EndLine(lines, line_num, radius)
         IN  IF line_num < 1 \/ line_num > Len(lines)
             THEN InitialChunks(lines, Tail(nums), radius)
             ELSE <<ContextChunk(start_line, PySlice(lines, start_line - 1, end_line))>>
                  \o InitialChunks(lines, Tail(nums), radius)

\* The end_line of each initial chunk, in the same order.
RECURSIVE InitialEnds(_, _, _)
InitialEnds(lines, nums, radius) ==
    IF nums = <<>> THEN <<>>
    ELSE LET line_num == Head(nums) IN
         IF line_num < 1 \/ line_num > Len(lines)
         THEN InitialEnds(lines, Tail(nums), radius)
         ELSE <<EndLine(lines, line_num, radius)>>
              \o InitialEnds(lines, Tail(nums), radius)

NoStep == [valid |-> FALSE, current_start |-> 0, current_len |-> 0,
           next_start |-> 0, merged |-> FALSE]

\* create_context_chunks up to the merge loop: the line numbers, the early
\* returns, the initial chunks.
CC_Start ==
    /\ cpc = "idle"
    /\ LET line_numbers == LineNumbers(locations)
           lines == Split(file_content)
           initial == InitialChunks(lines, Sorted(line_numbers), context_lines)
       IN  IF ParseRaises(locations)
           THEN /\ cpc' = "raised"
                /\ UNCHANGED <<chunks, window_end, rest, current_chunk, merged_into>>
           ELSE /\ chunks' = initial
                /\ window_end' = InitialEnds(lines, Sorted(line_numbers), context_lines)
                /\ IF line_numbers = {} \/ initial = <<>>
                   THEN /\ cpc' = "done"
                        /\ UNCHANGED <<rest, current_chunk, merged_into>>
                   ELSE /\ cpc' = "merge"
                        /\ rest' = Tail(initial)
                        /\ current_chunk' = Head(initial)
                        /\ merged_into' = <<{1}>>
    /\ UNCHANGED <<file_content, locations, context_lines, combined_chunks, returned,
                   last_step>>

\* The test of the merge loop.
ChunksOverlapStrictly(current, next) ==
    next.line_number <= current.line_number + Len(current.content) - 1

ChunksOverlap(current, next) ==
    LET current_end == current.line_number + Len(current.content)
    IN  next.line_number <= current_end

\* The content given to current_chunk when next_chunk is merged into it.
ConcatenatedContent(lines, current, next) == current.content \o next.content

CombinedContent(lines, current, next) ==
    PySlice(lines, current.line_number - 1,
            next.line_number + Len(next.content) - 1)

\* One iteration of `for next_chunk in chunks[1:]`. current_chunk is an
\* element of the list chunks (chunks[0], or the next_chunk taken over), and
\* line 89 assigns its content in place: the list holds the new content too.
\* The slice chunks[1:] was taken before the loop; the elements it has yet to
\* yield are not assigned to.
CC_MergeStep ==
    /\ cpc = "merge"
    /\ rest # <<>>
    /\ LET next_chunk == Head(rest)
           lines == Split(file_content)
           k == Len(chunks) - Len(rest) + 1
           g == Len(merged_into)
           at == CHOOSE i \in merged_into[g] : \A j \in merged_into[g] : i <= j
       IN  /\ rest' = Tail(rest)
           /\ IF ChunksOverlap(current_chunk, next_chunk)
              THEN /\ current_chunk' =
                        [current_chunk EXCEPT
                           !.content = CombinedContent(lines, current_chunk, next_chunk)]
                   /\ chunks' = [chunks EXCEPT ![at] = current_chunk']
                   /\ merged_into' = [merged_into EXCEPT ![g] = @ \cup {k}]
                   /\ last_step' = [valid |-> TRUE,
                                    current_start |-> current_chunk.line_number,
                                    current_len |-> Len(current_chunk.content),
                                    next_start |-> next_chunk.line_number,
                                    merged |-> TRUE]
                   /\ UNCHANGED combined_chunks
              ELSE /\ combined_chunks' = Append(combined_chunks, current_chunk)
                   /\ UNCHANGED chunks
                   /\ current_chunk' = next_chunk
                   /\ merged_into' = Append(merged_into, {k})
                   /\ last_step' = [valid |-> TRUE,
                                    current_start |-> current_chunk.line_number,
                                    current_len |-> Len(current_chunk.content),
                                    next_start |-> next_chunk.line_number,
                                    merged |-> FALSE]
    /\ UNCHANGED <<cpc, file_content, locations, context_lines, returned,
                   window_end>>

\* combined_chunks.append(current_chunk) after the loop: the chunk list returned.
FinalChunksWithoutLast(combined, current) == combined

FinalChunks(combined, current) == Append(combined, current)

\* The merge loop as a function of the candidate windows: current_chunk, the
\* windows not yet visited, combined_chunks.
RECURSIVE MergeLoop(_, _, _, _)
MergeLoop(lines, current, remaining, combined) ==
    IF remaining = <<>> THEN FinalChunks(combined, current)
    ELSE LET next_chunk == Head(remaining) IN
         IF ChunksOverlap(current, next_chunk)
         THEN MergeLoop(lines,
                        ContextChunk(current.line_number,
                                     CombinedContent(lines, current, next_chunk)),
                        Tail(remaining), combined)
         ELSE MergeLoop(lines, next_chunk, Tail(remaining), Append(combined, current))

\* `if not chunks: return RelevantChunks(chunks=[])`, else the merge loop from
\* chunks[0].
MergePass(lines, cs) ==
    IF cs = <<>> THEN <<>> ELSE MergeLoop(lines, Head(cs), Tail(cs), <<>>)

\* combined_chunks.append(current_chunk); return RelevantChunks(...)
CC_Return ==
    /\ cpc = "merge"
    /\ rest = <<>>
    /\ combined_chunks' = FinalChunks(combined_chunks, current_chunk)
    /\ returned' = combined_chunks'
    /\ cpc' = "done"
    /\ UNCHANGED <<file_content, locations, context_lines, chunks, rest,
                   current_chunk, last_step, window_end, merged_into>>

(***************************************************************************)
(*                            truncate_output                              *)
(***************************************************************************)

\* The characters of an output.
OutputChars == {"x", "y"}

Outputs == UNION {[1..n -> OutputChars] : n \in 0..MaxOutputLen}

\* "[Output too long, truncating middle portion]\n\n"
TRUNCATION_HEADER ==
    <<"[", "O", "u", "t", "p", "u", "t", " ", "t", "o", "o", " ", "l", "o",
      "n", "g", ",", " ", "t", "r", "u", "n", "c", "a", "t", "i", "n", "g",
      " ", "m", "i", "d", "d", "l", "e", " ", "p", "o", "r", "t", "i", "o",
      "n", "]", "\n", "\n">>

\* "\n\n[Truncating " and " characters]\n\n", the text of the marker on either
\* side of the number.
MARKER_BEFORE_NUMBER ==
    <<"\n", "\n", "[", "T", "r", "u", "n", "c", "a", "t", "i", "n", "g", " ">>

MARKER_AFTER_NUMBER ==
    <<" ", "c", "h", "a", "r", "a", "c", "t", "e", "r", "s", "]", "\n", "\n">>

DecimalDigits == <<"0", "1", "2", "3", "4", "5", "6", "7", "8", "9">>

\* The text an f-string gives a non-negative integer: its decimal digits.
RECURSIVE Str(_)
Str(n) ==
    IF n < 10 THEN <<DecimalDigits[n + 1]>>
    ELSE Str(n \div 10) \o <<DecimalDigits[(n % 10) + 1]>>

\* num_truncatable_chars
NumTruncatableCharsOfEvenBudget(text, budget) == Len(text) - 2 * (budget \div 2)

NumTruncatableChars(text, budget) == Len(text) - budget

\* output[len(output) - back_length :]
BackPartByNegativeIndex(text, back_length) ==
    IF back_length = 0 THEN text
    ELSE SubSeq(text, Len(text) - back_length + 1, Len(text))

BackPart(text, back_length) == SubSeq(text, Len(text) - back_length + 1, Len(text))

truncate_output(text, budget) ==
    IF Len(text) <= budget THEN text
    ELSE LET front_length == budget \div 2
             back_length == budget - front_length
             num_truncatable_chars == NumTruncatableChars(text, budget)
         IN  TRUNCATION_HEADER
             \o PySlice(text, 0, front_length)
             \o MARKER_BEFORE_NUMBER \o Str(num_truncatable_chars) \o MARKER_AFTER_NUMBER
             \o BackPart(text, back_length)

\* A call of truncate_output.
TO_Call ==
    /\ tpc = "idle"
    /\ truncated' = truncate_output(output, max_length)
    /\ tpc' = "done"
    /\ UNCHANGED <<output, max_length>>

(***************************************************************************)
(*   get_test_command. A repo identifier is a sequence of word pieces, so  *)
(*   that "django-cms" holds "django".                                     *)
(***************************************************************************)
RepoPieces == {"django", "-cms", "seaborn", "astropy", "sphinx", "sympy", "/", "owner"}

Repos == UNION {[1..n -> RepoPieces] : n \in 0..MaxRepoLen}

\* `name in problem.repo`: the name occurs in the identifier.
OccursIn(name, identifier) ==
    \E from \in 1..(Len(identifier) - Len(name) + 1) :
        SubSeq(identifier, from, from + Len(name) - 1) = name

Project(name, command) == [name |-> name, command |-> command]

\* The projects in the order of the `if` statements, each with its command.
ListedProjects ==
    <<Project(<<"django">>,
              "./tests/runtests.py --verbosity 2 --settings=test_sqlite --parallel 1"),
      Project(<<"django", "-cms">>, "./tests/runtests.py --verbosity 2"),
      Project(<<"seaborn">>, "pytest --no-header -rA"),
      Project(<<"astropy">>, "pytest -rA -vv -o console_output_style=classic --tb=no"),
      Project(<<"sphinx">>, "tox --current-env -epy39 -v --"),
      Project(<<"sympy">>, "bin/test -C --verbose")>>

DefaultCommand == "pytest -rA"

\* The `if` statements from the k-th on.
RECURSIVE CommandFrom(_, _)
CommandFrom(identifier, k) ==
    IF k > Len(ListedProjects) THEN DefaultCommand
    ELSE IF OccursIn(ListedProjects[k].name, identifier) THEN ListedProjects[k].command
    ELSE CommandFrom(identifier, k + 1)

get_test_command(identifier) == CommandFrom(identifier, 1)

\* A call of get_test_command.
GT_Call ==
    /\ qpc = "idle"
    /\ test_command' = get_test_command(repo)
    /\ qpc' = "done"
    /\ UNCHANGED repo

(***************************************************************************)
(*                     ExecutionOutput.render_stdout                       *)
(***************************************************************************)

\* An optional value: <<>> is None, <<v>> holds v.
IsNone(optional) == optional = <<>>

\* "[Running script timed out]"
TIMED_OUT_PLACEHOLDER ==
    <<"[", "R", "u", "n", "n", "i", "n", "g", " ", "s", "c", "r", "i", "p",
      "t", " ", "t", "i", "m", "e", "d", " ", "o", "u", "t", "]">>

\* "[Running script produced no output]"
NO_OUTPUT_PLACEHOLDER ==
    <<"[", "R", "u", "n", "n", "i", "n", "g", " ", "s", "c", "r", "i", "p",
      "t", " ", "p", "r", "o", "d", "u", "c", "e", "d", " ", "n", "o", " ",
      "o", "u", "t", "p", "u", "t", "]">>

\* render_stdout(self, max_chars)
NoOutputBeforeTimedOut(optional_stdout, is_timed_out, budget) ==
    IF IsNone(optional_stdout) THEN NO_OUTPUT_PLACEHOLDER
    ELSE IF is_timed_out THEN TIMED_OUT_PLACEHOLDER
    ELSE IF IsNone(budget) THEN optional_stdout[1]
    ELSE truncate_output(optional_stdout[1], budget[1])

render_stdout(optional_stdout, is_timed_out, budget) ==
    IF is_timed_out THEN TIMED_OUT_PLACEHOLDER
    ELSE IF IsNone(optional_stdout) THEN NO_OUTPUT_PLACEHOLDER
    ELSE IF IsNone(budget) THEN optional_stdout[1]
    ELSE truncate_output(optional_stdout[1], budget[1])

\* A call of render_stdout.
RS_Call ==
    /\ xpc = "idle"
    /\ rendered' = render_stdout(self_stdout, self_timed_out, max_chars)
    /\ xpc' = "done"
    /\ UNCHANGED <<self_stdout, self_timed_out, max_chars>>

(***************************************************************************)
(*                              create_patch                               *)
(***************************************************************************)

\* The texts of a file version, over the characters of Chars.
PatchContents == UNION {[1..n -> Chars] : n \in 0..MaxContentLen}

\* The names of the files of a call.
PatchFileNames == <<"a.py", "b.py">>

\* str.splitlines() on a text whose only line break is "\n": the pieces between
\* the line breaks, without the empty piece after a final line break; the empty
\* text has no line.
Splitlines(s) ==
    IF s = <<>> THEN <<>>
    ELSE LET pieces == Split(s)
         IN  IF s[Len(s)] = "\n" THEN SubSeq(pieces, 1, Len(pieces) - 1) ELSE pieces

Edit(file_name, line_number, line_content, new_line_content) ==
    [file_name |-> file_name, line_number |-> line_number,
     line_content |-> line_content, new_line_content |-> new_line_content]

\* max_lines
MinLines(old_lines, new_lines) == Min(Len(old_lines), Len(new_lines))

MaxLines(old_lines, new_lines) == Max(Len(old_lines), Len(new_lines))

\* line_number=i
OneBasedLineNumber(i) == i + 1

EditLineNumber(i) == i

\* `for i in range(max_lines)` from index i on: the edits of one file.
RECURSIVE FileEdits(_, _, _, _)
FileEdits(file_name, old_lines, new_lines, i) ==
    IF i >= MaxLines(old_lines, new_lines) THEN <<>>
    ELSE LET old_line == IF i < Len(old_lines) THEN old_lines[i + 1] ELSE <<>>
             new_line == IF i < Len(new_lines) THEN new_lines[i + 1] ELSE <<>>
         IN  (IF old_line # new_line
              THEN <<Edit(file_name, EditLineNumber(i), old_line, new_line)>>
              ELSE <<>>)
             \o FileEdits(file_name, old_lines, new_lines, i + 1)

\* `for file_name, old_content, new_content in zip(...)` from the k-th triple on;
\* zip stops with its shortest argument.
RECURSIVE PatchEdits(_, _, _, _)
PatchEdits(names, olds, news, k) ==
    IF k > Min(Len(names), Min(Len(olds), Len(news))) THEN <<>>
    ELSE FileEdits(names[k], Splitlines(olds[k]), Splitlines(news[k]), 0)
         \o PatchEdits(names, olds, news, k + 1)

\* Patch(edits=[...]).edits
create_patch(names, olds, news) == PatchEdits(names, olds, news, 1)

\* A call of create_patch.
CP_Call ==
    /\ ppc = "idle"
    /\ edits' = create_patch(file_names, old_contents, new_contents)
    /\ ppc' = "done"
    /\ UNCHANGED <<file_names, old_contents, new_contents>>

(***************************************************************************)
(*     The batches: localization.main with _run_work, and                  *)
(*     regression_test_execution.main with run_regression_test_execution   *)
(***************************************************************************)

\* LocalizationConfig.max_file_tokens
max_file_tokens == 100000

\* The files of the localization batch with count_tokens of their content: one
\* at the limit, one above it, one small.
FileTokens ==
    [f \in {"small.py", "limit.py", "big.py"} |->
        IF f = "small.py" THEN 1
        ELSE IF f = "limit.py" THEN max_file_tokens ELSE max_file_tokens + 1]

Files == DOMAIN FileTokens

\* The problems of the regression batch.
Problems == {"p1", "p2"}

\* run_id of get_passing_tests: the problem with the hash of the patch, or of
\* "empty_patch" without a patch.
RunId(problem, patch) == <<problem, patch>>

\* The store: the existence checks and the writes.
localization_decision_exists(path) == path \in loc_store
save_per_file_relevant_chunks(path) == loc_store \cup {path}
regression_test_execution_exists(problem) == problem \in reg_store
save_regression_test_execution(problem) == reg_store \cup {problem}

\* What a worker did for a unit.
Handled(unit, existed, requests, tests, writes) ==
    [unit |-> unit, existed |-> existed, requests |-> requests, tests |-> tests,
     writes |-> writes]

NoUnit == Handled("none", FALSE, 0, 0, 0)

\* The units of the two batches.
Units == Files \cup Problems

\* A worker of parallelize inside a unit: where it stands (at), for a problem
\* the call to the outside it has come to (k) and whether a task of its thread
\* pool has raised, and the requests and test runs it has made.
Worker(at, k, raised, requests, tests) ==
    [at |-> at, k |-> k, raised |-> raised, requests |-> requests, tests |-> tests]

NoWorker == Worker("none", 0, FALSE, 0, 0)

\* The units that workers are inside of.
InFlight == {u \in Units : workers[u].at # "none"}

\* `if trajectory_store.localization_decision_exists(work.file.path): return`
LocalizationNeverSkipped(path) == FALSE

LocalizationSkipped(path) == localization_decision_exists(path)

\* `if trajectory_store.regression_test_execution_exists(): ... return`
RegressionNeverSkipped(problem) == FALSE

RegressionSkipped(problem) == regression_test_execution_exists(problem)

\* A batch starts: main hands its units to parallelize.
BatchStart(name, units) ==
    /\ stage = "none"
    /\ runs < MaxRuns
    /\ stage' = name
    /\ pending' = units
    /\ failed' = {}
    /\ n_requests' = 0
    /\ n_tests' = 0
    /\ n_writes' = 0
    /\ last_unit' = NoUnit
    /\ UNCHANGED <<runs, workers, patch_data, loc_store, reg_store, test_logs,
                   completed>>

\* A worker is done with a unit: it returned, or it raised (the unit failed).
Leave(unit, did, has_failed) ==
    /\ workers' = [workers EXCEPT ![unit] = NoWorker]
    /\ last_unit' = did
    /\ failed' = IF has_failed THEN failed \cup {unit} ELSE failed

\* main of localization.py hands its work items to parallelize.
LW_Start == BatchStart("localization", Files)

\* A worker enters _run_work for a file (lines 229-244): the existence check,
\* the token limit, and the request it then waits for inside call_completions.
\* The workers of parallelize (max_workers = 256) are inside their units at the
\* same time.
LW_RunWork ==
    /\ stage = "localization"
    /\ \E f \in pending :
          /\ pending' = pending \ {f}
          /\ IF LocalizationSkipped(f) \/ FileTokens[f] > max_file_tokens
             THEN /\ last_unit' = Handled(f, localization_decision_exists(f), 0, 0, 0)
                  /\ UNCHANGED <<workers, n_requests>>
             ELSE /\ n_requests' = n_requests + 1
                  /\ workers' = [workers EXCEPT
                                    ![f] = Worker("call_completions", 0, FALSE, 1, 0)]
                  /\ UNCHANGED last_unit
    /\ UNCHANGED <<stage, runs, patch_data, failed, loc_store, reg_store, test_logs,
                   n_tests, n_writes, completed>>

\* call_completions returns the message, or raises and the unit has failed.
LW_Completion ==
    /\ \E f \in Files, answered \in BOOLEAN :
          /\ workers[f].at = "call_completions"
          /\ IF answered
             THEN /\ workers' = [workers EXCEPT ![f].at = "create_context_chunks"]
                  /\ UNCHANGED <<failed, last_unit>>
             ELSE Leave(f, Handled(f, FALSE, workers[f].requests, 0, 0), TRUE)
    /\ UNCHANGED <<stage, runs, pending, patch_data, loc_store, reg_store, test_logs,
                   n_requests, n_tests, n_writes, completed>>

\* _parse_response and create_context_chunks (lines 248-252) make the relevant
\* chunks of the message; nothing outside the worker changes.
LW_Chunks ==
    /\ \E f \in Files :
          /\ workers[f].at = "create_context_chunks"
          /\ workers' = [workers EXCEPT ![f].at = "save_per_file_relevant_chunks"]
    /\ UNCHANGED <<stage, runs, pending, patch_data, failed, loc_store, reg_store,
                   test_logs, n_requests, n_tests, n_writes, last_unit, completed>>

\* trajectory_store.save_per_file_relevant_chunks(...), and _run_work returns.
LW_Save ==
    /\ \E f \in Files :
          /\ workers[f].at = "save_per_file_relevant_chunks"
          /\ loc_store' = save_per_file_relevant_chunks(f)
          /\ n_writes' = n_writes + 1
          /\ Leave(f, Handled(f, FALSE, workers[f].requests, 0, 1), FALSE)
    /\ UNCHANGED <<stage, runs, pending, patch_data, reg_store, test_logs,
                   n_requests, n_tests, completed>>

\* main of regression_test_execution.py hands its problems to parallelize.
REG_Start == BatchStart("regression", Problems)

\* patch_data as the store loads it: no patch, a patch whose text is empty, one
\* diff, two different diffs.
PatchLists == {<<>>, <<"">>, <<"diff1">>, <<"diff1", "diff2">>}

\* A call to the outside: run_tests for a patch (None without one), or
\* select_tests.
OutsideCall(what, patch) == [what |-> what, patch |-> patch]

\* The get_passing_tests calls of the futures: one per element of patches.
TestsPerEdit(patch_list) ==
    [i \in 1..Len(patch_list) |-> OutsideCall("tests", patch_list[i])]

\* The calls of a run of run_regression_test_execution_for_patches that reach
\* the outside, in order: get_passing_tests without a patch (inside
\* get_chosen_tests), select_tests, get_passing_tests again without a patch,
\* then one get_passing_tests per patch, which the one worker of the thread
\* pool (num_threads_per_problem = 1) makes in the order of submission.
RegressionCalls(patch_list) ==
    <<OutsideCall("tests", "None"), OutsideCall("select_tests", "None"),
      OutsideCall("tests", "None")>> \o TestsPerEdit(patch_list)

\* The calls made before the thread pool exists.
CallsBeforePool == 3

\* The run id of a "tests" call: `patch if patch else "empty_patch"`.
RunIdOfCall(problem, c) ==
    RunId(problem, IF c.patch \in {"None", ""} THEN "empty_patch" ELSE c.patch)

\* A worker enters run_regression_test_execution for a problem (lines 142-150):
\* the existence check, and the patches loaded from the store.
REG_Run ==
    /\ stage = "regression"
    /\ \E problem \in pending :
          /\ pending' = pending \ {problem}
          /\ IF RegressionSkipped(problem)
             THEN /\ last_unit' = Handled(problem,
                                          regression_test_execution_exists(problem),
                                          0, 0, 0)
                  /\ UNCHANGED workers
             ELSE /\ workers' = [workers EXCEPT
                                    ![problem] = Worker("before", 1, FALSE, 0, 0)]
                  /\ UNCHANGED last_unit
    /\ UNCHANGED <<stage, runs, patch_data, failed, loc_store, reg_store, test_logs,
                   n_requests, n_tests, n_writes, completed>>

\* The unit comes to its next call: select_tests is requested; run_tests is
\* called when the log of the run id does not exist (line 89), and with the log
\* there get_passing_tests goes on without a test run.
REG_Enter ==
    /\ \E problem \in Problems :
          LET w == workers[problem]
              calls == RegressionCalls(patch_data[problem])
              c == calls[w.k]
          IN  /\ w.at = "before"
              /\ w.k <= Len(calls)
              /\ IF c.what = "select_tests"
                 THEN /\ n_requests' = n_requests + 1
                      /\ workers' = [workers EXCEPT
                                        ![problem] = Worker("select_tests", w.k, w.raised,
                                                            w.requests + 1, w.tests)]
                      /\ UNCHANGED n_tests
                 ELSE IF RunIdOfCall(problem, c) \in test_logs
                 THEN /\ workers' = [workers EXCEPT ![problem].k = w.k + 1]
                      /\ UNCHANGED <<n_requests, n_tests>>
                 ELSE /\ n_tests' = n_tests + 1
                      /\ workers' = [workers EXCEPT
                                        ![problem] = Worker("run_tests", w.k, w.raised,
                                                            w.requests, w.tests + 1)]
                      /\ UNCHANGED n_requests
    /\ UNCHANGED <<stage, runs, pending, patch_data, failed, loc_store, reg_store,
                   test_logs, n_writes, last_unit, completed>>

\* The call returns (run_tests has left the log of its run), or it raises and
\* leaves none. An exception before the thread pool ends the unit. One inside a
\* task of the pool is kept by its future: the pool runs the tasks that remain,
\* and the exception is raised from future.result() once the with block of the
\* executor has waited for them.
REG_Leave ==
    /\ \E problem \in Problems, answered \in BOOLEAN :
          LET w == workers[problem]
              c == RegressionCalls(patch_data[problem])[w.k]
          IN  /\ w.at \in {"select_tests", "run_tests"}
              /\ test_logs' = IF answered /\ w.at = "run_tests"
                              THEN test_logs \cup {RunIdOfCall(problem, c)}
                              ELSE test_logs
              /\ IF answered \/ w.k > CallsBeforePool
                 THEN /\ workers' = [workers EXCEPT
                                        ![problem] = Worker("before", w.k + 1,
                                                            w.raised \/ ~answered,
                                                            w.requests, w.tests)]
                      /\ UNCHANGED <<failed, last_unit>>
                 ELSE Leave(problem, Handled(problem, FALSE, w.requests, w.tests, 0),
                            TRUE)
    /\ UNCHANGED <<stage, runs, pending, patch_data, loc_store, reg_store,
                   n_requests, n_tests, n_writes, completed>>

\* Every call is over: the results are collected (future.result() raises what a
\* task raised) and trajectory_store.save_regression_test_execution stores them.
REG_Save ==
    /\ \E problem \in Problems :
          LET w == workers[problem] IN
          /\ w.at = "before"
          /\ w.k > Len(RegressionCalls(patch_data[problem]))
          /\ IF w.raised
             THEN /\ Leave(problem, Handled(problem, FALSE, w.requests, w.tests, 0),
                           TRUE)
                  /\ UNCHANGED <<reg_store, n_writes>>
             ELSE /\ reg_store' = save_regression_test_execution(problem)
                  /\ n_writes' = n_writes + 1
                  /\ Leave(problem, Handled(problem, FALSE, w.requests, w.tests, 1),
                           FALSE)
    /\ UNCHANGED <<stage, runs, pending, patch_data, loc_store, test_logs,
                   n_requests, n_tests, completed>>

\* parallelize returns: every unit was handled, a failed one without stopping
\* the others.
B_Finish ==
    /\ stage # "none"
    /\ pending = {}
    /\ InFlight = {}
    /\ stage' = "none"
    /\ runs' = runs + 1
    /\ completed' = IF failed = {} THEN completed \cup {stage} ELSE completed
    /\ UNCHANGED <<pending, workers, patch_data, failed, loc_store, reg_store,
                   test_logs, n_requests, n_tests, n_writes, last_unit>>

(***************************************************************************)
(*   _run_work of localization.py on one file, with the response of the    *)
(*   model as a sequence of tokens: the word LOCATIONS:, a line break, a   *)
(*   code fence (three backquotes, written <fence>), and a text without    *)
(*   white space.                                                          *)
(***************************************************************************)
Tokens == {"LOCATIONS:", "\n", "<fence>", "line: 1"}

Messages == UNION {[1..n -> Tokens] : n \in 0..MaxMessageLen}

\* The regex LOCATIONS:\s*\n```(.*?)``` matched at position i of the message:
\* after LOCATIONS: nothing but line breaks, one at least, up to the opening
\* fence at `open`.
OpensAt(message, i, open) ==
    /\ message[i] = "LOCATIONS:"
    /\ open > i + 1
    /\ open <= Len(message)
    /\ message[open] = "<fence>"
    /\ \A k \in (i + 1)..(open - 1) : message[k] = "\n"

\* The group of the match found first: (.*?) ends at the first fence after
\* the opening one.
LocationsMatches(message) ==
    {m \in [start : 1..Len(message), open : 1..Len(message), close : 1..Len(message)] :
        /\ OpensAt(message, m.start, m.open)
        /\ m.close > m.open
        /\ message[m.close] = "<fence>"
        /\ \A k \in (m.open + 1)..(m.close - 1) : message[k] # "<fence>"}

\* re.search(...): the leftmost match, if there is one.
HasLocationsMatch(message) == LocationsMatches(message) # {}

locations_match(message) ==
    CHOOSE m \in LocationsMatches(message) :
        \A other \in LocationsMatches(message) : m.start <= other.start

\* The lines of a sequence of tokens that hold a text: the texts between the
\* line breaks, the empty ones left out.
RECURSIVE NonEmptyLines(_)
NonEmptyLines(tokens) ==
    IF tokens = <<>> THEN <<>>
    ELSE IF Head(tokens) = "\n" THEN NonEmptyLines(Tail(tokens))
    ELSE LET n == CHOOSE k \in 1..Len(tokens) :
                     /\ \A j \in 1..k : tokens[j] # "\n"
                     /\ k = Len(tokens) \/ tokens[k + 1] = "\n"
         IN  <<SubSeq(tokens, 1, n)>> \o NonEmptyLines(SubSeq(tokens, n + 1, Len(tokens)))

RelevantLocations(message, locs) == [message |-> message, locations |-> locs]

\* _parse_response(message)
parse_response(message) ==
    IF ~HasLocationsMatch(message) THEN RelevantLocations(message, <<>>)
    ELSE LET m == locations_match(message)
             locations_text == SubSeq(message, m.open + 1, m.close - 1)
         IN  RelevantLocations(message, NonEmptyLines(locations_text))

\* A parsed location as create_context_chunks reads it: it starts with "line:"
\* when its first token does, and int() accepts the text between its first and
\* its second colon only when the location is the token "line: 1" alone.
LocationOf(loc) ==
    [prefix |-> IF Head(loc) = "line: 1" THEN "line:" ELSE "LOCATIONS:",
     is_int |-> loc = <<"line: 1">>,
     value |-> IF loc = <<"line: 1">> THEN 1 ELSE 0]

\* work.file.content, as far as create_context_chunks reads it: the files have
\* two lines (count_tokens of the content is FileTokens).
WorkFileContent == [f \in Files |-> <<"a", "\n", "a">>]

\* context_lines of create_context_chunks, which _run_work leaves at its default.
DefaultContextLines == 200

RelevantChunks(message, cs, file_path) ==
    [message |-> message, chunks |-> cs, file_path |-> file_path]

\* create_context_chunks(message, locations, file_path, file_content): the line
\* numbers of the locations, the windows around those within the file, merged;
\* without a line number, or without one within the file, chunks is empty.
create_context_chunks(message, locs, file_path, content) ==
    LET lines == Split(content)
        nums == LineNumbers({LocationOf(locs[i]) : i \in 1..Len(locs)})
    IN  RelevantChunks(message,
                       MergePass(lines,
                                 InitialChunks(lines, Sorted(nums), DefaultContextLines)),
                       file_path)

\* No result in the store.
NoDecision == RelevantChunks(<<"none">>, <<>>, "none")

\* An earlier result in the store.
EarlierDecision == RelevantChunks(<<"earlier">>, <<>>, "earlier")

\* _run_work(work) up to the request: it returns when the store holds a result
\* for the file or the file is above the token limit; else the request is sent
\* and the worker waits in call_completions.
RW_RunWork ==
    /\ wpc = "idle"
    /\ IF decision # NoDecision
       THEN wpc' = "done" /\ UNCHANGED n_completions
       ELSE IF FileTokens[work_file] > max_file_tokens
       THEN wpc' = "done" /\ UNCHANGED n_completions
       ELSE /\ n_completions' = n_completions + 1
            /\ wpc' = "call_completions"
    /\ UNCHANGED <<work_file, response, decision, relevant_chunks>>

\* call_completions returns the message of the response, or lets the
\* exception of the client out, which ends _run_work: nothing is stored.
RW_Completion ==
    /\ wpc = "call_completions"
    /\ \E raises \in BOOLEAN : wpc' = IF raises THEN "raised" ELSE "parse"
    /\ UNCHANGED <<work_file, response, decision, n_completions, relevant_chunks>>

\* _parse_response(message), then create_context_chunks on the locations it
\* found and the file.
RW_Chunks ==
    /\ wpc = "parse"
    /\ relevant_chunks' =
          create_context_chunks(response, parse_response(response).locations,
                                work_file, WorkFileContent[work_file])
    /\ wpc' = "save"
    /\ UNCHANGED <<work_file, response, decision, n_completions>>

\* trajectory_store.save_per_file_relevant_chunks(work.file.path, relevant_chunks)
RW_Save ==
    /\ wpc = "save"
    /\ decision' = relevant_chunks
    /\ wpc' = "done"
    /\ UNCHANGED <<work_file, response, n_completions, relevant_chunks>>

(***************************************************************************)
(*   run_regression_test_execution_for_patches, with the thread pool's     *)
(*   workers taken one step at a time.                                     *)
(***************************************************************************)

\* PatchInfo.patch: the empty text, or one of two diffs.
PatchTexts == {"", "diff1", "diff2"}

\* What select_tests may choose.
Selections == {"tests1", "tests2"}

\* None, as the patch or as chosen_tests.
None == "None"

NOOP_PATCH == "NOOP_PATCH"

\* `patch if patch else default`
PatchOr(patch, default) == IF patch \notin {None, ""} THEN patch ELSE default

\* run_id: the instance id with the md5 of the patch text, or of "empty_patch".
run_id(patch) == <<"md5", PatchOr(patch, "empty_patch")>>

RunIds == {run_id(patch) : patch \in PatchTexts \cup {None}}

\* regression_test_file: a temporary file that holds chosen_tests, or "".
regression_test_file(selection) == IF selection # None THEN selection ELSE ""

\* The test_output.txt of a run: the patch and the tests it was run with.
TestOutput(model_patch, test_file) ==
    [exists |-> TRUE, model_patch |-> model_patch, regression_test_file |-> test_file]

NoTestOutput == [exists |-> FALSE, model_patch |-> "", regression_test_file |-> ""]

\* os.path.exists(input_folder_path)
LogExists(logs, patch) == logs[run_id(patch)].exists

\* run_tests(model_patches=[patch if patch else NOOP_PATCH], run_id=run_id,
\* regression_test_file=regression_test_file) leaves the log of the run.
run_tests(logs, patch, selection) ==
    [logs EXCEPT ![run_id(patch)] =
        TestOutput(PatchOr(patch, NOOP_PATCH), regression_test_file(selection))]

\* The logs after `if not os.path.exists(...): run_tests(...)`.
LogsAfter(logs, patch, selection) ==
    IF ~LogExists(logs, patch) THEN run_tests(logs, patch, selection) ELSE logs

\* get_logs_eval and the PASSED filter: the passing tests the log tells.
PassingTests(logs, patch) ==
    LET test_output == logs[run_id(patch)]
    IN  <<"passing", test_output.model_patch, test_output.regression_test_file>>

\* get_passing_tests(problem, patch, chosen_tests)
get_passing_tests(logs, patch, selection) ==
    PassingTests(LogsAfter(logs, patch, selection), patch)

\* A finished get_passing_tests call.
Got(patch, selection, passing_tests) ==
    [patch |-> patch, chosen_tests |-> selection, passing_tests |-> passing_tests]

NoGet == Got(None, None, <<>>)

Future(patch, state, found, passing_tests) ==
    [patch |-> patch, state |-> state, found |-> found, result |-> passing_tests]

\* run_regression_test_execution_for_patches(patches, problem, config) is called,
\* for the first time or once more: logs/ keeps what earlier calls left.
RP_Call ==
    /\ gpc \in {"idle", "done"}
    /\ gpc' = "get_chosen_tests"
    /\ chosen_tests' = None
    /\ futures' = <<>>
    /\ completion_order' = <<>>
    /\ collected_from' = <<>>
    /\ passing_tests_on_empty_diff' = <<>>
    /\ passing_tests_per_edit' = <<>>
    /\ last_get' = NoGet
    /\ UNCHANGED <<patches, num_threads_per_problem, run_logs>>

\* get_chosen_tests(problem): get_passing_tests(problem), then select_tests.
RP_GetChosenTests ==
    /\ gpc = "get_chosen_tests"
    /\ run_logs' = LogsAfter(run_logs, None, None)
    /\ last_get' = Got(None, None, get_passing_tests(run_logs, None, None))
    /\ chosen_tests' \in Selections
    /\ gpc' = "empty_diff"
    /\ UNCHANGED <<patches, num_threads_per_problem, futures, completion_order,
                   collected_from, passing_tests_on_empty_diff, passing_tests_per_edit>>

\* passing_tests_on_empty_diff = get_passing_tests(problem)
RP_EmptyDiff ==
    /\ gpc = "empty_diff"
    /\ run_logs' = LogsAfter(run_logs, None, None)
    /\ passing_tests_on_empty_diff' = get_passing_tests(run_logs, None, None)
    /\ last_get' = Got(None, None, passing_tests_on_empty_diff')
    /\ gpc' = IF patches = <<>> THEN "collect" ELSE "submit"
    /\ UNCHANGED <<patches, num_threads_per_problem, chosen_tests, futures,
                   completion_order, collected_from, passing_tests_per_edit>>

\* for patch in patches: futures.append(executor.submit(get_passing_tests, ...))
RP_Submit ==
    /\ gpc = "submit"
    /\ futures' = Append(futures,
                         Future(patches[Len(futures) + 1], "pending", FALSE, <<>>))
    /\ gpc' = IF Len(futures') = Len(patches) THEN "collect" ELSE "submit"
    /\ UNCHANGED <<patches, num_threads_per_problem, chosen_tests, run_logs,
                   completion_order, collected_from, passing_tests_on_empty_diff,
                   passing_tests_per_edit, last_get>>

\* The tasks no thread has entered get_passing_tests for: they wait in the
\* queue of the pool, or a thread has taken them and not yet begun.
Pending == {i \in 1..Len(futures) : futures[i].state = "pending"}

\* A worker thread enters get_passing_tests (lines 77-88: the run id, the
\* temporary file with chosen_tests). The threads take the tasks from the queue
\* in the order of submission, each thread one task at a time, so a task is
\* with a thread when the tasks submitted up to it that are not done are no
\* more than the threads; which of the threads that hold a task enters the
\* function first is not ordered.
RP_StartRun ==
    /\ gpc \in {"submit", "collect"}
    /\ \E i \in Pending :
          /\ Cardinality({k \in 1..i : futures[k].state # "done"})
                <= num_threads_per_problem
          /\ futures' = [futures EXCEPT ![i] = Future(@.patch, "started", FALSE, <<>>)]
    /\ UNCHANGED <<gpc, patches, num_threads_per_problem, chosen_tests, run_logs,
                   completion_order, collected_from, passing_tests_on_empty_diff,
                   passing_tests_per_edit, last_get>>

\* `if not os.path.exists(input_folder_path)` (line 89): a thread looks for the
\* log of its run id, whenever it comes to it: the threads are not ordered.
RP_CheckLog ==
    /\ \E i \in 1..Len(futures) :
          /\ futures[i].state = "started"
          /\ futures' = [futures EXCEPT ![i] =
                            Future(@.patch, "checked", LogExists(run_logs, @.patch),
                                   <<>>)]
    /\ UNCHANGED <<gpc, patches, num_threads_per_problem, chosen_tests, run_logs,
                   completion_order, collected_from, passing_tests_on_empty_diff,
                   passing_tests_per_edit, last_get>>

\* run_tests (lines 90-99), for a thread that had found no log: the run leaves
\* the log.
RP_RunTests ==
    /\ \E i \in 1..Len(futures) :
          /\ futures[i].state = "checked"
          /\ ~futures[i].found
          /\ run_logs' = run_tests(run_logs, futures[i].patch, chosen_tests)
          /\ futures' = [futures EXCEPT ![i].state = "ran"]
    /\ UNCHANGED <<gpc, patches, num_threads_per_problem, chosen_tests,
                   completion_order, collected_from, passing_tests_on_empty_diff,
                   passing_tests_per_edit, last_get>>

\* A thread ends its task (lines 100-110): the passing tests of the log, which
\* it had found or which its test run has left.
RP_FinishRun ==
    /\ \E i \in 1..Len(futures) :
          LET patch == futures[i].patch IN
          /\ \/ futures[i].state = "checked" /\ futures[i].found
             \/ futures[i].state = "ran"
          /\ futures' = [futures EXCEPT ![i] =
                            Future(patch, "done", @.found,
                                   PassingTests(run_logs, patch))]
          /\ completion_order' = Append(completion_order, i)
          /\ last_get' = Got(patch, chosen_tests, PassingTests(run_logs, patch))
    /\ UNCHANGED <<gpc, patches, num_threads_per_problem, chosen_tests, run_logs,
                   collected_from, passing_tests_on_empty_diff, passing_tests_per_edit>>

\* The future whose result becomes the k-th entry of passing_tests_per_edit.
FutureCompleted(k, order) == IF k <= Len(order) THEN order[k] ELSE 0

FutureCollected(k, order) == k

\* [future.result() for future in futures], one future at a time: result()
\* waits until the future is done.
RP_Collect ==
    /\ gpc = "collect"
    /\ Len(passing_tests_per_edit) < Len(futures)
    /\ LET i == FutureCollected(Len(passing_tests_per_edit) + 1, completion_order)
       IN  /\ i \in 1..Len(futures)
           /\ futures[i].state = "done"
           /\ passing_tests_per_edit' = Append(passing_tests_per_edit, futures[i].result)
           /\ collected_from' = Append(collected_from, i)
    /\ UNCHANGED <<gpc, patches, num_threads_per_problem, chosen_tests, run_logs,
                   futures, completion_order, passing_tests_on_empty_diff, last_get>>

\* return RegressionTestExecutionResults(...)
RP_Return ==
    /\ gpc = "collect"
    /\ Len(passing_tests_per_edit) = Len(futures)
    /\ gpc' = "done"
    /\ UNCHANGED <<patches, num_threads_per_problem, chosen_tests, run_logs, futures,
                   completion_order, collected_from, passing_tests_on_empty_diff,
                   passing_tests_per_edit, last_get>>

(***************************************************************************)
(*   The verification state machine. Its code is not among the sources;    *)
(*   the model follows section 4.5 of the specification, with the three    *)
(*   options approve_or_revise_prompt offers as the oracle's judgments.    *)
(***************************************************************************)

\* No patch, no script.
Absent == 0

Judgments == {"RedoPatch", "RedoTest", "Done"}

Judged(judgment, patch, script, tree) ==
    [judgment |-> judgment, patch |-> patch, script |-> script, tree |-> tree]

NoJudgment == Judged("none", Absent, Absent, {})

\* The iteration budget: a maximum turn count is enforced.
BudgetNeverExhausted(count) == FALSE

BudgetExhausted(count) == count >= TurnBudget

\* The edited tree of a sandbox run, as execute_script makes it: a fresh copy of
\* the original tree, whatever the edited tree of the run before held, with the
\* patch on it when git apply applied it (applied); when git apply rejects the
\* patch the run goes on with the copy as it is.
TreeOnTopOf(previous_tree, patch, applied) ==
    previous_tree \cup (IF applied THEN {patch} ELSE {})

TreeWith(previous_tree, patch, applied) == IF applied THEN {patch} ELSE {}

\* AwaitingEdit: a PatchSet arrives; the sandbox runs the current test script
\* on the unpatched and on the patched tree; the machine awaits the judgment.
SM_ReceivePatch ==
    /\ vstate = "AwaitingEdit"
    /\ n_patches' = n_patches + 1
    /\ current_patch' = n_patches'
    /\ \E applied \in BOOLEAN :
          edited_tree' = TreeWith(edited_tree, current_patch', applied)
    /\ ran_script' = current_test_script
    /\ format_retries' = 0
    /\ vstate' = "AwaitingDecision"
    /\ last_action' = "receive"
    /\ m_steps' = m_steps + 1
    /\ UNCHANGED <<current_test_script, iteration_count, trace, judgments, n_scripts,
                   exhausted, output_patch, last_judged>>

\* AwaitingEdit: the edit output does not parse; a formatting-error prompt is
\* sent, a bounded number of times, after which the failure is fatal.
SM_FormatError ==
    /\ vstate = "AwaitingEdit"
    /\ IF format_retries < MaxFormatRetries
       THEN /\ format_retries' = format_retries + 1
            /\ UNCHANGED vstate
       ELSE /\ vstate' = "Failed"
            /\ UNCHANGED format_retries
    /\ last_action' = "format_error"
    /\ m_steps' = m_steps + 1
    /\ UNCHANGED <<current_patch, current_test_script, iteration_count, trace,
                   judgments, edited_tree, ran_script, n_patches, n_scripts,
                   exhausted, output_patch, last_judged>>

\* RedoTest: the patch is retained.
PatchKeptOnRedoTest(patch) == patch

\* AwaitingDecision: the oracle's judgment ends the turn.
SM_Judge(judgment) ==
    /\ vstate = "AwaitingDecision"
    /\ iteration_count' = iteration_count + 1
    /\ judgments' = Append(judgments, judgment)
    /\ last_judged' = Judged(judgment, current_patch, current_test_script, edited_tree)
    /\ last_action' = "judge"
    /\ m_steps' = m_steps + 1
    /\ IF judgment = "Done"
       THEN /\ vstate' = "Done"
            /\ output_patch' = current_patch
            /\ UNCHANGED <<current_patch, current_test_script, edited_tree, ran_script,
                           n_scripts, exhausted>>
       ELSE IF BudgetExhausted(iteration_count')
       THEN /\ vstate' = "Done"
            /\ exhausted' = TRUE
            /\ output_patch' = current_patch
            /\ UNCHANGED <<current_patch, current_test_script, edited_tree, ran_script,
                           n_scripts>>
       ELSE IF judgment = "RedoPatch"
       THEN /\ current_patch' = Absent
            /\ vstate' = "AwaitingEdit"
            /\ UNCHANGED <<current_test_script, edited_tree, ran_script, n_scripts,
                           exhausted, output_patch>>
       ELSE /\ n_scripts' = n_scripts + 1
            /\ current_test_script' = n_scripts'
            /\ ran_script' = current_test_script'
            /\ current_patch' = PatchKeptOnRedoTest(current_patch)
            /\ \E applied \in BOOLEAN :
                  edited_tree' = TreeWith(edited_tree, current_patch', applied)
            /\ vstate' = "AwaitingDecision"
            /\ UNCHANGED <<exhausted, output_patch>>
    /\ trace' = Append(trace, vstate')
    /\ UNCHANGED <<format_retries, n_patches>>

RunnerInit ==
    /\ pc = "idle"
    /\ call = NoCall
    /\ result = NoResult
    /\ log = <<>>
    /\ patch_apply_exit_code = NoExitCode
    /\ fuzzy_patch_apply_exit_code = NoExitCode
    /\ held = {}
    /\ n_acquired = 0
    /\ n_released = 0
    /\ canonical \in {{}, {"dirty"}}
    /\ canonical0 = canonical
    /\ temp_tree = {}
    /\ script_tree = {"none"}
    /\ cmd_idx = 0

ChunkInit ==
    /\ cpc = "idle"
    /\ file_content = <<>>
    /\ locations = {}
    /\ context_lines = 0
    /\ chunks = <<>>
    /\ rest = <<>>
    /\ current_chunk = ContextChunk(0, <<>>)
    /\ combined_chunks = <<>>
    /\ returned = <<>>
    /\ last_step = NoStep
    /\ window_end = <<>>
    /\ merged_into = <<>>

TruncateInit ==
    /\ tpc = "idle"
    /\ output = <<>>
    /\ max_length = 0
    /\ truncated = <<>>

PatchInit ==
    /\ ppc = "idle"
    /\ file_names = <<>>
    /\ old_contents = <<>>
    /\ new_contents = <<>>
    /\ edits = <<>>

\* Nothing was run yet: the store holds no result and logs/ no log.
StoreInit ==
    /\ stage = "none"
    /\ runs = 0
    /\ pending = {}
    /\ workers = [u \in Units |-> NoWorker]
    /\ failed = {}
    /\ loc_store = {}
    /\ reg_store = {}
    /\ test_logs = {}
    /\ n_requests = 0
    /\ n_tests = 0
    /\ n_writes = 0
    /\ last_unit = NoUnit
    /\ completed = {}

\* No batch is modelled: the problems have no patch.
BatchInit ==
    /\ StoreInit
    /\ patch_data = [problem \in Problems |-> <<>>]

\* Before the call: no log under logs/.
RegressionInit ==
    /\ gpc = "idle"
    /\ patches = <<>>
    /\ num_threads_per_problem = 1
    /\ chosen_tests = None
    /\ run_logs = [id \in RunIds |-> NoTestOutput]
    /\ futures = <<>>
    /\ completion_order = <<>>
    /\ collected_from = <<>>
    /\ passing_tests_on_empty_diff = <<>>
    /\ passing_tests_per_edit = <<>>
    /\ last_get = NoGet

\* Before the call.
WorkInit ==
    /\ wpc = "idle"
    /\ work_file = "small.py"
    /\ response = <<>>
    /\ decision = NoDecision
    /\ n_completions = 0
    /\ relevant_chunks = NoDecision

RenderInit ==
    /\ xpc = "idle"
    /\ self_stdout = <<>>
    /\ self_timed_out = FALSE
    /\ max_chars = <<>>
    /\ rendered = <<>>

CommandInit ==
    /\ qpc = "idle"
    /\ repo = <<>>
    /\ test_command = ""

\* No call was made yet.
PairInit ==
    /\ first_call = NoCall
    /\ second_call = NoCall
    /\ n_calls = 0
    /\ first_result = NoResult
    /\ first_script_tree = {"none"}

\* The machine is created in AwaitingEdit, with the initial test script and
\* no patch.
MachineInit ==
    /\ vstate = "AwaitingEdit"
    /\ current_patch = Absent
    /\ current_test_script = 1
    /\ iteration_count = 0
    /\ trace = <<"AwaitingEdit">>
    /\ judgments = <<>>
    /\ format_retries = 0
    /\ edited_tree = {}
    /\ ran_script = Absent
    /\ n_patches = 0
    /\ n_scripts = 1
    /\ exhausted = FALSE
    /\ output_patch = Absent
    /\ last_judged = NoJudgment
    /\ last_action = "init"
    /\ m_steps = 0

Init ==
    /\ RunnerInit
    /\ ChunkInit
    /\ TruncateInit
    /\ PatchInit
    /\ BatchInit
    /\ MachineInit
    /\ CommandInit
    /\ RenderInit
    /\ WorkInit
    /\ RegressionInit
    /\ PairInit

\* The arguments of create_context_chunks are drawn from the bounded sets.
InitChunks ==
    /\ RunnerInit
    /\ canonical = {}
    /\ cpc = "idle"
    /\ file_content \in FileContents
    /\ locations \in LocationLists
    /\ context_lines \in 0..MaxRadius
    /\ chunks = <<>>
    /\ rest = <<>>
    /\ current_chunk = ContextChunk(0, <<>>)
    /\ combined_chunks = <<>>
    /\ returned = <<>>
    /\ last_step = NoStep
    /\ window_end = <<>>
    /\ merged_into = <<>>
    /\ TruncateInit
    /\ PatchInit
    /\ BatchInit
    /\ MachineInit
    /\ CommandInit
    /\ RenderInit
    /\ WorkInit
    /\ RegressionInit
    /\ PairInit

\* The arguments of truncate_output are drawn from the bounded sets.
InitTruncate ==
    /\ RunnerInit
    /\ canonical = {}
    /\ ChunkInit
    /\ tpc = "idle"
    /\ output \in Outputs
    /\ max_length \in 0..MaxBudget
    /\ truncated = <<>>
    /\ PatchInit
    /\ BatchInit
    /\ MachineInit
    /\ CommandInit
    /\ RenderInit
    /\ WorkInit
    /\ RegressionInit
    /\ PairInit

\* The arguments of create_patch are drawn from the bounded sets: the first
\* files of PatchFileNames, with an old and a new text each.
InitPatch ==
    /\ RunnerInit
    /\ canonical = {}
    /\ ChunkInit
    /\ TruncateInit
    /\ ppc = "idle"
    /\ \E n \in 0..Len(PatchFileNames) :
          /\ file_names = SubSeq(PatchFileNames, 1, n)
          /\ old_contents \in [1..n -> PatchContents]
          /\ new_contents \in [1..n -> PatchContents]
    /\ edits = <<>>
    /\ BatchInit
    /\ MachineInit
    /\ CommandInit
    /\ RenderInit
    /\ WorkInit
    /\ RegressionInit
    /\ PairInit

\* The batches start from an empty store and an empty logs/ directory.
InitBatch ==
    /\ RunnerInit
    /\ canonical = {}
    /\ ChunkInit
    /\ TruncateInit
    /\ PatchInit
    /\ StoreInit
    /\ patch_data \in [Problems -> PatchLists]
    /\ MachineInit
    /\ CommandInit
    /\ RenderInit
    /\ WorkInit
    /\ RegressionInit
    /\ PairInit

\* One problem's machine, from its creation.
InitMachine ==
    /\ RunnerInit
    /\ canonical = {}
    /\ ChunkInit
    /\ TruncateInit
    /\ PatchInit
    /\ BatchInit
    /\ MachineInit
    /\ CommandInit
    /\ RenderInit
    /\ WorkInit
    /\ RegressionInit
    /\ PairInit

(***************************************************************************)
(* Two calls for one problem. The pairs compared: the container runner and *)
(* the filesystem runner with the same arguments and the same answers of   *)
(* their commands; the filesystem runner without a patch and with one, on  *)
(* the same script.                                                        *)
(***************************************************************************)
SameArguments(c, d) ==
    /\ c.patch = d.patch
    /\ c.return_error_as_execution_output = d.return_error_as_execution_output
    /\ c.primary = d.primary
    /\ c.fuzzy = d.fuzzy
    /\ c.raises = d.raises
    /\ c.script.kind = d.script.kind
    /\ c.script.kind # "timeout" => c.script.code = d.script.code

\* The calls of a pair are given every answer, asked for or not. The two calls
\* of execute_script are given the same script file: what the script does is
\* its own in each call, as it depends on the tree it runs in.
CallPairs ==
    LET PairCalls(fn) ==
            {c \in CallRecords : c.fn = fn /\ c.patch \in {"none", "diff"}}
    IN
    {p \in PairCalls("execute_script_container") \X PairCalls("execute_script") :
        SameArguments(p[1], p[2])}
    \cup {p \in PairCalls("execute_script") \X PairCalls("execute_script") :
             /\ p[1].patch = "none"
             /\ p[2].patch = "diff"
             /\ p[1].return_error_as_execution_output
                  = p[2].return_error_as_execution_output}

InitPair ==
    /\ RunnerInit
    /\ ChunkInit
    /\ TruncateInit
    /\ PatchInit
    /\ BatchInit
    /\ MachineInit
    /\ CommandInit
    /\ RenderInit
    /\ WorkInit
    /\ RegressionInit
    /\ \E p \in CallPairs : first_call = p[1] /\ second_call = p[2]
    /\ n_calls = 0
    /\ first_result = NoResult
    /\ first_script_tree = {"none"}

\* The runner of the call is entered.
PairBegin(c) ==
    IF c.fn = "execute_script_container" THEN EC_Begin(c) ELSE FS_Begin(c)

PAIR_First ==
    /\ pc = "idle"
    /\ n_calls = 0
    /\ PairBegin(first_call)
    /\ n_calls' = 1
    /\ UNCHANGED <<first_call, second_call, first_result, first_script_tree>>

\* The first call is over: what it returned and the tree its script ran on
\* are kept, and the second call starts.
PAIR_Second ==
    /\ pc = "idle"
    /\ n_calls = 1
    /\ first_result' = result
    /\ first_script_tree' = script_tree
    /\ PairBegin(second_call)
    /\ n_calls' = 2
    /\ UNCHANGED <<first_call, second_call>>

NextPair ==
    \/ PAIR_First /\ UNCHANGED outside_pair
    \/ PAIR_Second /\ UNCHANGED outside_pair
    \/ EC_GitApply /\ UNCHANGED outside_runner
    \/ EC_Fuzzy /\ UNCHANGED outside_runner
    \/ EC_RunScript /\ UNCHANGED outside_runner
    \/ FS_Apply /\ UNCHANGED outside_runner
    \/ FS_RunScript /\ UNCHANGED outside_runner

SpecPair == InitPair /\ [][NextPair]_vars

\* The patch list and the number of workers are drawn from the bounded sets.
InitRegression ==
    /\ RunnerInit
    /\ canonical = {}
    /\ ChunkInit
    /\ TruncateInit
    /\ PatchInit
    /\ BatchInit
    /\ MachineInit
    /\ CommandInit
    /\ RenderInit
    /\ WorkInit
    /\ PairInit
    /\ gpc = "idle"
    /\ patches \in UNION {[1..n -> PatchTexts] : n \in 0..MaxPatches}
    /\ num_threads_per_problem \in 1..MaxThreads
    /\ chosen_tests = None
    /\ run_logs = [id \in RunIds |-> NoTestOutput]
    /\ futures = <<>>
    /\ completion_order = <<>>
    /\ collected_from = <<>>
    /\ passing_tests_on_empty_diff = <<>>
    /\ passing_tests_per_edit = <<>>
    /\ last_get = NoGet

NextRegression ==
    \/ RP_Call /\ UNCHANGED outside_regr
    \/ RP_GetChosenTests /\ UNCHANGED outside_regr
    \/ RP_EmptyDiff /\ UNCHANGED outside_regr
    \/ RP_Submit /\ UNCHANGED outside_regr
    \/ RP_StartRun /\ UNCHANGED outside_regr
    \/ RP_CheckLog /\ UNCHANGED outside_regr
    \/ RP_RunTests /\ UNCHANGED outside_regr
    \/ RP_FinishRun /\ UNCHANGED outside_regr
    \/ RP_Collect /\ UNCHANGED outside_regr
    \/ RP_Return /\ UNCHANGED outside_regr

SpecRegression == InitRegression /\ [][NextRegression]_vars

\* The file, the result the store holds for it and what the model will answer
\* are drawn from the bounded sets.
InitWork ==
    /\ RunnerInit
    /\ canonical = {}
    /\ ChunkInit
    /\ TruncateInit
    /\ PatchInit
    /\ BatchInit
    /\ MachineInit
    /\ CommandInit
    /\ RenderInit
    /\ PairInit
    /\ RegressionInit
    /\ wpc = "idle"
    /\ work_file \in Files
    /\ response \in Messages
    /\ decision \in {NoDecision, EarlierDecision}
    /\ n_completions = 0
    /\ relevant_chunks = NoDecision

NextWork ==
    \/ RW_RunWork /\ UNCHANGED outside_work
    \/ RW_Completion /\ UNCHANGED outside_work
    \/ RW_Chunks /\ UNCHANGED outside_work
    \/ RW_Save /\ UNCHANGED outside_work

SpecWork == InitWork /\ [][NextWork]_vars

\* The ExecutionOutput and the budget of render_stdout are drawn from the
\* bounded sets.
InitRender ==
    /\ RunnerInit
    /\ canonical = {}
    /\ ChunkInit
    /\ TruncateInit
    /\ PatchInit
    /\ BatchInit
    /\ MachineInit
    /\ CommandInit
    /\ PairInit
    /\ RegressionInit
    /\ WorkInit
    /\ xpc = "idle"
    /\ self_stdout \in {<<>>} \cup {<<text>> : text \in Outputs}
    /\ self_timed_out \in BOOLEAN
    /\ max_chars \in {<<>>} \cup {<<budget>> : budget \in 0..MaxBudget}
    /\ rendered = <<>>

NextRender == RS_Call /\ UNCHANGED outside_render

SpecRender == InitRender /\ [][NextRender]_vars

\* The repo identifier is drawn from the bounded set.
InitCommand ==
    /\ RunnerInit
    /\ canonical = {}
    /\ ChunkInit
    /\ TruncateInit
    /\ PatchInit
    /\ BatchInit
    /\ MachineInit
    /\ PairInit
    /\ RegressionInit
    /\ WorkInit
    /\ RenderInit
    /\ qpc = "idle"
    /\ repo \in Repos
    /\ test_command = ""

NextCommand == GT_Call /\ UNCHANGED outside_command

SpecCommand == InitCommand /\ [][NextCommand]_vars

Next ==
    \/ FS_Enter /\ UNCHANGED outside_runner
    \/ FS_Apply /\ UNCHANGED outside_runner
    \/ FS_RunScript /\ UNCHANGED outside_runner
    \/ EC_Enter /\ UNCHANGED outside_runner
    \/ EC_GitApply /\ UNCHANGED outside_runner
    \/ EC_Fuzzy /\ UNCHANGED outside_runner
    \/ EC_RunScript /\ UNCHANGED outside_runner
    \/ LOC_Enter /\ UNCHANGED outside_runner
    \/ LOC_TryCmd /\ UNCHANGED outside_runner
    \/ LOC_Report /\ UNCHANGED outside_runner

Spec == Init /\ [][Next]_vars

NextChunks ==
    \/ CC_Start /\ UNCHANGED outside_chunks
    \/ CC_MergeStep /\ UNCHANGED outside_chunks
    \/ CC_Return /\ UNCHANGED outside_chunks

SpecChunks == InitChunks /\ [][NextChunks]_vars

NextTruncate == TO_Call /\ UNCHANGED outside_truncate

SpecTruncate == InitTruncate /\ [][NextTruncate]_vars

NextPatch == CP_Call /\ UNCHANGED outside_patch

SpecPatch == InitPatch /\ [][NextPatch]_vars

NextBatch ==
    \/ LW_Start /\ UNCHANGED outside_batch
    \/ LW_RunWork /\ UNCHANGED outside_batch
    \/ LW_Completion /\ UNCHANGED outside_batch
    \/ LW_Chunks /\ UNCHANGED outside_batch
    \/ LW_Save /\ UNCHANGED outside_batch
    \/ REG_Start /\ UNCHANGED outside_batch
    \/ REG_Run /\ UNCHANGED outside_batch
    \/ REG_Enter /\ UNCHANGED outside_batch
    \/ REG_Leave /\ UNCHANGED outside_batch
    \/ REG_Save /\ UNCHANGED outside_batch
    \/ B_Finish /\ UNCHANGED outside_batch

SpecBatch == InitBatch /\ [][NextBatch]_vars

NextMachine ==
    \/ SM_ReceivePatch /\ UNCHANGED outside_machine
    \/ SM_FormatError /\ UNCHANGED outside_machine
    \/ (\E judgment \in Judgments : SM_Judge(judgment)) /\ UNCHANGED outside_machine

SpecMachine == InitMachine /\ [][NextMachine]_vars

(***************************************************************************)
(*                       THE CLAIMS ABOUT THE RUNNERS                      *)
(***************************************************************************)

\* A call of fn has run to its end.
Ended(fn) == pc = "idle" /\ call.fn = fn

\* The call ran execute_script (directly, or inside run_swebench_test_local).
RanExecuteScript == call.fn \in {"execute_script", "run_swebench_test_local"}

\* The commands of the log, in order.
Cmds == [i \in 1..Len(log) |-> log[i].cmd]

HasRun(cmd) == \E i \in 1..Len(log) : log[i].cmd = cmd

ScriptExecuted == HasRun("script")

\* execute_script_container or execute_script has returned or raised: to the
\* user, or to run_swebench_test_local.
RunnerEnded ==
    \/ pc = "idle" /\ call.fn \in {"execute_script_container", "execute_script"}
    \/ pc = "loc_report"

\* The stdout of the ExecutionOutput a runner returned, also when it is the
\* test_output of the SWEBenchTestResult that run_swebench_test_local made of it.
ReturnedStdout ==
    IF result.kind = "test_result" THEN result.test_output ELSE result.stdout

\* The stdout of a result is a diagnostic of the runner: it is not the output
\* of the script.
IsDiagnostic(stdout) == stdout # "script output"

\* execute_script could not copy the repository: no patch command and no
\* script was run.
CopyFailed == result = Raised("Error")

\* C1 (as stated): a run of either runner that is given a patch which both
\* git apply and the fuzzy patch reject returns ExecutionOutput(exit_code = 1,
\* timed_out = false, a diagnostic stdout) and does not raise, whatever
\* return_error_as_execution_output is. (Runs of execute_script that could not
\* copy the repository never came to the patch and are left out.)
C1_FailedPatchIsAnOutput ==
    (/\ pc = "idle"
     /\ call.fn \in {"execute_script_container", "execute_script"}
     /\ ~CopyFailed
     /\ IsNotNone(call.patch)
     /\ ~call.raises
     /\ call.primary # 0
     /\ call.fuzzy # 0)
    => (/\ result.kind = "output"
        /\ result.exit_code = 1
        /\ ~result.timed_out
        /\ IsDiagnostic(result.stdout))

\* C2 (as stated): in execute_script with a patch, the script is executed only
\* after the patch was applied to the disposable copy: a run in which git apply
\* exited non-zero never executes the script, and never returns the script's
\* result on a tree without the patch as its result.
C2_ScriptOnlyOnPatchedTree ==
    (/\ RanExecuteScript
     /\ IsNotNone(call.patch)
     /\ \E i \in 1..Len(log) :
           log[i].cmd = "git apply" /\ log[i].exit_code \notin {0, NoExitCode})
    => (/\ ~ScriptExecuted
        /\ "patch" \notin script_tree => IsDiagnostic(ReturnedStdout))

\* C3 (as stated): no runner operation modifies the canonical tree at the
\* problem's repo location: it always equals its initial state.
C3_CanonicalTreeUntouched == canonical = canonical0

\* C4: every sandbox a run acquires is torn down exactly once on every exit
\* path: between runs nothing is held and the run released as many sandboxes
\* as it acquired; during a run the sandboxes held are those acquired and not
\* yet released, and the runner's own sandbox is held while it works.
C4_SandboxesTornDown ==
    /\ n_released <= n_acquired
    /\ Cardinality(held) = n_acquired - n_released
    /\ pc = "idle" => (held = {} /\ n_released = n_acquired)
    /\ pc \in {"ec_apply", "ec_fuzzy", "ec_script"} => held = {"container"}
    /\ pc \in {"fs_apply", "fs_script"} => held = {"tempdir"}
    /\ pc = "loc_cmd" => held = {"patchdir"}
    /\ pc = "loc_report" => held = {}

\* A container run raised after both patch commands failed, and its container
\* was torn down.
C4_Witness ==
    /\ Ended("execute_script_container")
    /\ result.kind = "raise"
    /\ fuzzy_patch_apply_exit_code = 1
    /\ n_acquired = 1
    /\ n_released = 1
    /\ held = {}

\* C5 (as stated): every ExecutionOutput with timed_out = true has
\* exit_code = 1; a script that exceeded the timeout gives timed_out = true and
\* exit_code = 1 whatever code was reported, and a script that ran to its end
\* within the timeout gives an ExecutionOutput with its own exit code and
\* timed_out = false, whatever it printed.
C5_TimeoutIsExitCodeOne ==
    /\ (result.kind = "output" /\ result.timed_out) => result.exit_code = 1
    /\ (RunnerEnded /\ ScriptExecuted /\ call.script.kind = "timeout")
       => (result.kind = "output" /\ result.timed_out /\ result.exit_code = 1)
    /\ (RunnerEnded /\ ScriptExecuted /\ call.script.kind \in {"exit", "undecodable"})
       => (/\ result.kind = "output"
           /\ ~result.timed_out
           /\ result.exit_code = call.script.code)

\* The script was written into the sandbox.
ScriptWritten == "reproduce_script.py" \in temp_tree

\* One of the two patch commands exited 0.
PatchApplied == patch_apply_exit_code = 0 \/ fuzzy_patch_apply_exit_code = 0

\* In execute_script_container with a patch, the fuzzy fallback is run if and
\* only if git apply exited non-zero, and after it; the script is run only
\* after git apply or the fallback exited zero, and never when both failed.
FallbackThenScript ==
    /\ HasRun("patch --fuzz")
       => (/\ Len(log) >= 2
           /\ log[1].cmd = "git apply"
           /\ log[1].exit_code \notin {0, NoExitCode}
           /\ log[2].cmd = "patch --fuzz")
    /\ (patch_apply_exit_code \notin {0, NoExitCode} /\ pc # "ec_fuzzy")
       => HasRun("patch --fuzz")
    /\ ScriptExecuted
       => (/\ PatchApplied
           /\ log[Len(log)].cmd = "script"
           /\ log[1].cmd = "git apply")
    /\ (pc = "idle" /\ fuzzy_patch_apply_exit_code \notin {0, NoExitCode})
       => ~ScriptExecuted

\* C6 (as stated): in execute_script_container with a patch, the fuzzy fallback
\* is run if and only if git apply exited non-zero, and after it; the script is
\* written and run if and only if git apply or the fallback exited zero, and
\* after them.
C6_AsStated ==
    (call.fn = "execute_script_container" /\ IsNotNone(call.patch))
    => (/\ FallbackThenScript
        /\ (pc = "idle" /\ PatchApplied) => ScriptExecuted)

\* C6 (amended): in execute_script_container with a patch, the fuzzy fallback
\* is run if and only if git apply exited non-zero, and after it; the script is
\* written and run only if git apply or the fallback exited zero, and when one
\* of them did it is written and run unless writing it or starting it raises,
\* in which case the call raises; when both fail the script is neither written
\* nor run.
C6_FallbackOrder ==
    (call.fn = "execute_script_container" /\ IsNotNone(call.patch))
    => (/\ FallbackThenScript
        /\ ScriptWritten => PatchApplied
        /\ (pc = "idle" /\ PatchApplied /\ ~ScriptExecuted) => result.kind = "raise"
        /\ (pc = "idle" /\ PatchApplied /\ result.kind # "raise")
           => (ScriptWritten /\ ScriptExecuted))

\* git apply failed, the fallback applied the patch, and the call raised when
\* it wrote the script: the script was neither written nor run.
C6_Witness ==
    /\ Ended("execute_script_container")
    /\ Cmds = <<"git apply", "patch --fuzz">>
    /\ patch_apply_exit_code = 1
    /\ fuzzy_patch_apply_exit_code = 0
    /\ ~ScriptWritten
    /\ result.kind = "raise"

(***************************************************************************)
(*                   THE CLAIMS ABOUT create_context_chunks                *)
(***************************************************************************)

\* The lines of the file, and the line numbers of the call that are in bounds.
FileLines == Split(file_content)

ValidLineNumbers ==
    {n \in LineNumbers(locations) : 1 <= n /\ n <= Len(FileLines)}

\* The candidate windows as the first loop creates them.
CandidateWindows ==
    InitialChunks(FileLines, Sorted(LineNumbers(locations)), context_lines)

\* The line numbers a chunk contains.
Covered(c) == c.line_number..(c.line_number + Len(c.content) - 1)

\* C7: every valid line number lies in exactly one returned chunk, the chunks
\* are pairwise non-overlapping, and their start lines are strictly ascending.
C7_ChunkCoverage ==
    cpc = "done"
    => (/\ \A n \in ValidLineNumbers :
              Cardinality({i \in 1..Len(returned) : n \in Covered(returned[i])}) = 1
        /\ \A i, j \in 1..Len(returned) :
              i # j => Covered(returned[i]) \cap Covered(returned[j]) = {}
        /\ \A i \in 1..(Len(returned) - 1) :
              returned[i].line_number < returned[i + 1].line_number)

\* Three line numbers were given and two chunks came back.
C7_Witness ==
    /\ cpc = "done"
    /\ Cardinality(ValidLineNumbers) = 3
    /\ Len(returned) = 2

\* C8 (as stated): the loop merges the next window if and only if its start
\* line is <= the number of the last line of the current window.
C8_MergeIffStartWithinLastLine ==
    last_step.valid
    => (last_step.merged
        <=> last_step.next_start
               <= last_step.current_start + last_step.current_len - 1)

\* C8 (amended): the loop merges the next window if and only if its start line
\* is <= the current window's start line plus its number of lines, that is, at
\* most one past its last line: adjacent windows merge too.
C8_MergeIffStartWithinOnePastEnd ==
    last_step.valid
    => (last_step.merged
        <=> last_step.next_start <= last_step.current_start + last_step.current_len)

\* Two adjacent windows were merged.
C8_Witness ==
    /\ last_step.valid
    /\ last_step.merged
    /\ last_step.next_start = last_step.current_start + last_step.current_len

\* C9: no two consecutive returned chunks are adjacent: the next one starts
\* after the line that follows the previous one's last line.
C9_NoAdjacentChunks ==
    cpc = "done"
    => \A i \in 1..(Len(returned) - 1) :
          returned[i + 1].line_number
             > returned[i].line_number + Len(returned[i].content)

\* Two chunks came back with exactly one line of the file between them.
C9_Witness ==
    /\ cpc = "done"
    /\ Len(returned) = 2
    /\ returned[2].line_number
          = returned[1].line_number + Len(returned[1].content) + 1

\* The largest end line of the candidate windows merged into the i-th chunk.
MergedEnd(i) ==
    CHOOSE e \in {window_end[k] : k \in merged_into[i]} :
        \A k \in merged_into[i] : window_end[k] <= e

\* C10: every returned chunk holds exactly the file's lines from its start
\* line through the largest end line of the windows merged into it.
C10_ChunkContentIsUnionSpan ==
    cpc = "done"
    => (/\ Len(merged_into) = Len(returned)
        /\ \A i \in 1..Len(returned) :
              returned[i].content
                 = SubSeq(FileLines, returned[i].line_number, MergedEnd(i)))

\* Three overlapping windows were merged into one chunk.
C10_Witness ==
    /\ cpc = "done"
    /\ Len(returned) >= 1
    /\ Cardinality(merged_into[1]) = 3
    /\ Len(returned[1].content) < Len(FileLines)

\* C11: every returned chunk starts at line 1 or later, ends at the file's last
\* line or earlier (start line + number of lines - 1 <= number of lines of the
\* file split on line breaks), and holds at least one line.
C11_ChunksWithinFile ==
    cpc = "done"
    => \A i \in 1..Len(returned) :
          /\ returned[i].line_number >= 1
          /\ returned[i].line_number + Len(returned[i].content) - 1 <= Len(FileLines)
          /\ Len(returned[i].content) >= 1

\* A chunk came back whose window was clipped at both ends of the file: it
\* starts at line 1 and ends at the last line of a file of several lines.
C11_Witness ==
    /\ cpc = "done"
    /\ Len(FileLines) >= 3
    /\ context_lines >= 1
    /\ \E i \in 1..Len(returned) :
          /\ returned[i].line_number = 1
          /\ Len(returned[i].content) = Len(FileLines)
          /\ \E n \in ValidLineNumbers :
                n - context_lines < 1 /\ n + context_lines > Len(FileLines)

\* The locations that name no line of the file: not a "line:" location, a text
\* int() rejects, a number below 1 or above the number of lines.
InvalidLocations ==
    {l \in locations : \/ l.prefix # "line:"
                        \/ ~l.is_int
                        \/ l.value < 1
                        \/ l.value > Len(FileLines)}

\* C12: create_context_chunks never raises on its locations; the candidate
\* windows are exactly one per valid line number, so that a location that is
\* no "line:" location, holds no integer or is out of range contributes none,
\* every returned chunk holds a valid line number, and without a valid line
\* number (the empty list included) the chunk list returned is empty.
C12_InvalidLocationsSkipped ==
    /\ cpc # "raised"
    /\ cpc = "done"
       => (/\ Len(chunks) = Cardinality(locations \ InvalidLocations)
           /\ Len(CandidateWindows) = Len(chunks)
           /\ \A i \in 1..Len(returned) :
                 Covered(returned[i]) \cap ValidLineNumbers # {}
           /\ ValidLineNumbers = {} => returned = <<>>)

\* A call whose three locations are invalid in the three ways returned an empty
\* chunk list.
C12_Witness ==
    /\ cpc = "done"
    /\ returned = <<>>
    /\ \E l \in locations : l.prefix # "line:" /\ l.is_int
    /\ \E l \in locations : l.prefix = "line:" /\ ~l.is_int
    /\ \E l \in locations : l.prefix = "line:" /\ l.is_int /\ l.value > Len(FileLines)

\* C13: the merge pass is idempotent: applied to the chunk list it returned
\* (same file), it returns that list, start lines and contents; the list
\* returned is the merge pass of the candidate windows.
C13_MergeIdempotent ==
    cpc = "done"
    => (/\ returned = MergePass(FileLines, CandidateWindows)
        /\ MergePass(FileLines, returned) = returned)

\* Windows were merged, and two chunks came back.
C13_Witness ==
    /\ cpc = "done"
    /\ Len(returned) = 2
    /\ Len(chunks) = 3
    /\ MergePass(FileLines, returned) = returned

(***************************************************************************)
(*                     THE CLAIMS ABOUT truncate_output                    *)
(***************************************************************************)

\* The lengths of the kept parts for a budget, as the specification states
\* them, and the place of the marker's number in a truncated text.
FrontKept == max_length \div 2
BackKept == max_length - (max_length \div 2)
NumberFrom == Len(TRUNCATION_HEADER) + FrontKept + Len(MARKER_BEFORE_NUMBER) + 1
NumberTo == Len(truncated) - BackKept - Len(MARKER_AFTER_NUMBER)

\* The number of decimal digits of a non-negative integer.
RECURSIVE NumDigits(_)
NumDigits(n) == IF n < 10 THEN 1 ELSE 1 + NumDigits(n \div 10)

\* The integer a sequence of decimal digits denotes; -1 when it is empty or holds
\* another character.
RECURSIVE DecimalValue(_)
DecimalValue(digits) ==
    IF digits = <<>> \/ \E i \in 1..Len(digits) : \A d \in 1..10 : DecimalDigits[d] # digits[i]
    THEN -1
    ELSE LET last == CHOOSE d \in 0..9 : DecimalDigits[d + 1] = digits[Len(digits)]
         IN  IF Len(digits) = 1 THEN last
             ELSE 10 * DecimalValue(SubSeq(digits, 1, Len(digits) - 1)) + last

\* The text of the window of s that starts at position from (1-based) and has
\* the length of t is t.
HasAt(s, from, t) ==
    /\ from >= 1
    /\ from + Len(t) - 1 <= Len(s)
    /\ SubSeq(s, from, from + Len(t) - 1) = t

\* C14: an output longer than the budget B >= 0 comes back as the header, its
\* first floor(B/2) characters, the marker, its last B - floor(B/2) characters,
\* in this order and verbatim; the two kept parts do not overlap in the
\* original; the length of the result is B plus the lengths of the header and
\* of the marker. An output of length <= B comes back unchanged.
C14_TruncationKeepsBothEnds ==
    tpc = "done"
    => IF Len(output) <= max_length
       THEN truncated = output
       ELSE /\ HasAt(truncated, 1, TRUNCATION_HEADER)
            /\ \A i \in 1..FrontKept :
                  truncated[Len(TRUNCATION_HEADER) + i] = output[i]
            /\ HasAt(truncated, Len(TRUNCATION_HEADER) + FrontKept + 1,
                     MARKER_BEFORE_NUMBER)
            /\ HasAt(truncated, NumberTo + 1, MARKER_AFTER_NUMBER)
            /\ \A i \in 1..BackKept :
                  truncated[Len(truncated) - BackKept + i]
                     = output[Len(output) - BackKept + i]
            /\ FrontKept <= Len(output) - BackKept
            /\ Len(truncated)
                  = max_length + Len(TRUNCATION_HEADER) + Len(MARKER_BEFORE_NUMBER)
                    + NumDigits(Len(output) - max_length) + Len(MARKER_AFTER_NUMBER)

\* An output was cut to an odd budget: one character kept in front, two at the
\* back, and the kept characters differ from the dropped ones.
C14_Witness ==
    /\ tpc = "done"
    /\ max_length = 3
    /\ Len(output) = 6
    /\ output = <<"x", "y", "y", "x", "x", "y">>
    /\ Len(truncated) > Len(output)

\* C15: in the result for an output longer than the budget B >= 0, the number
\* written in the marker is len(output) - B, which is the number of characters
\* of the original in neither kept part.
C15_MarkerCountsElidedChars ==
    (tpc = "done" /\ Len(output) > max_length)
    => (/\ NumberFrom <= NumberTo
        /\ DecimalValue(SubSeq(truncated, NumberFrom, NumberTo))
              = Len(output) - max_length
        /\ DecimalValue(SubSeq(truncated, NumberFrom, NumberTo))
              = Cardinality((1..Len(output))
                            \ ((1..FrontKept)
                               \cup ((Len(output) - BackKept + 1)..Len(output)))))

\* Budget 0: the marker of a ten-character output says 10, in two digits, and
\* nothing of the output is kept.
C15_Witness ==
    /\ tpc = "done"
    /\ Len(output) = 10
    /\ max_length = 0
    /\ SubSeq(truncated, NumberFrom, NumberTo) = <<"1", "0">>
    /\ Len(truncated)
          = Len(TRUNCATION_HEADER) + Len(MARKER_BEFORE_NUMBER) + 2
            + Len(MARKER_AFTER_NUMBER)

(***************************************************************************)
(*                       THE CLAIMS ABOUT create_patch                     *)
(***************************************************************************)

\* The lines of the two versions of the k-th file, the line at a 0-based index
\* (the empty line past the end), and the indices at which the versions differ.
OldLines(k) == Splitlines(old_contents[k])
NewLines(k) == Splitlines(new_contents[k])

LineAt(lines, i) == IF i < Len(lines) THEN lines[i + 1] ELSE <<>>

DifferingIndices(k) ==
    {i \in 0..(Max(Len(OldLines(k)), Len(NewLines(k))) - 1) :
        LineAt(OldLines(k), i) # LineAt(NewLines(k), i)}

\* The positions in the edit list of the edits of the k-th file.
EditsOf(k) == {p \in 1..Len(edits) : edits[p].file_name = file_names[k]}

\* C16: two identical versions of a file give it no edit, so that identical
\* inputs give an empty edit list; two versions with the same number of lines
\* that differ at line i only give the file exactly one edit, whose line index
\* is i.
C16_DiffOfIdenticalAndOfOneLine ==
    ppc = "done"
    => (/\ old_contents = new_contents => edits = <<>>
        /\ \A k \in 1..Len(file_names) :
              /\ old_contents[k] = new_contents[k] => EditsOf(k) = {}
              /\ \A i \in 0..(Len(OldLines(k)) - 1) :
                    (/\ Len(OldLines(k)) = Len(NewLines(k))
                     /\ OldLines(k)[i + 1] # NewLines(k)[i + 1]
                     /\ \A j \in 0..(Len(OldLines(k)) - 1) :
                           j # i => OldLines(k)[j + 1] = NewLines(k)[j + 1])
                    => (/\ Cardinality(EditsOf(k)) = 1
                        /\ \A p \in EditsOf(k) : edits[p].line_number = i))

\* Two versions of two lines that differ at the last line only gave one edit,
\* with line index 1.
C16_Witness ==
    /\ ppc = "done"
    /\ Len(file_names) = 1
    /\ Len(OldLines(1)) = 2
    /\ Len(NewLines(1)) = 2
    /\ DifferingIndices(1) = {1}
    /\ Len(edits) = 1
    /\ edits[1].line_number = 1

\* C17: the versions of each file are compared index by index up to the longer
\* line count, a missing line counting as the empty line; every index at which
\* they differ gives exactly one edit, with the file's name, the 0-based
\* index, the original line and the new line, and there is no other edit; the
\* edits are in ascending index order within a file and in input order across
\* files.
C17_OneEditPerDifferingIndex ==
    ppc = "done"
    => (/\ \A k \in 1..Len(file_names) :
              /\ \A i \in DifferingIndices(k) :
                    Cardinality({p \in EditsOf(k) : edits[p].line_number = i}) = 1
              /\ \A p \in EditsOf(k) :
                    /\ edits[p].line_number \in DifferingIndices(k)
                    /\ edits[p].line_content
                          = LineAt(OldLines(k), edits[p].line_number)
                    /\ edits[p].new_line_content
                          = LineAt(NewLines(k), edits[p].line_number)
        /\ \A p \in 1..Len(edits) : \E k \in 1..Len(file_names) : p \in EditsOf(k)
        /\ \A p, q \in 1..Len(edits) :
              p < q
              => \E k, l \in 1..Len(file_names) :
                    /\ p \in EditsOf(k)
                    /\ q \in EditsOf(l)
                    /\ k < l \/ (k = l /\ edits[p].line_number < edits[q].line_number))

\* Two files; the first has one old line and two new ones that both differ
\* from the old ones, the second lost its only line: two edits for the first
\* file in ascending order, the second one against a missing line, then one
\* for the second file, to the empty line.
C17_Witness ==
    /\ ppc = "done"
    /\ Len(file_names) = 2
    /\ Len(OldLines(1)) = 1
    /\ Len(NewLines(1)) = 2
    /\ Len(OldLines(2)) = 1
    /\ Len(NewLines(2)) = 0
    /\ Len(edits) = 3
    /\ edits[1].line_number = 0
    /\ edits[2].file_name = file_names[1]
    /\ edits[2].line_number = 1
    /\ edits[2].line_content = <<>>
    /\ edits[3].file_name = file_names[2]
    /\ edits[3].line_number = 0
    /\ edits[3].new_line_content = <<>>

(***************************************************************************)
(*                       THE CLAIMS ABOUT THE BATCHES                      *)
(***************************************************************************)

\* C18: a unit whose result the store already reports as existing is skipped:
\* its worker makes no completion request, runs no tests and makes no store
\* write; and a batch of a stage run again after a batch of that stage ran to
\* its end with no unit failed makes no completion request, no test execution
\* and no store write.
C18_ExistingUnitsSkipped ==
    /\ last_unit.existed
       => (last_unit.requests = 0 /\ last_unit.tests = 0 /\ last_unit.writes = 0)
    /\ stage \in completed
       => (n_requests = 0 /\ n_tests = 0 /\ n_writes = 0)

\* A second localization batch has handled all its files, the one over the
\* token limit included, after a first one stored the chunks of the others.
C18_Witness ==
    /\ stage = "localization"
    /\ stage \in completed
    /\ pending = {}
    /\ loc_store = {"small.py", "limit.py"}
    /\ last_unit.existed
    /\ reg_store = Problems

(***************************************************************************)
(*              THE CLAIMS ABOUT THE VERIFICATION STATE MACHINE            *)
(***************************************************************************)

LastJudgment == judgments[Len(judgments)]

\* C19: the state trace, which holds the state at the start and the state
\* after every turn, never grows beyond the turn budget + 1; a sequence of
\* judgments that ends in Done has brought the machine to Done, and so has a
\* sequence without Done once it is as long as the budget; no run stays in
\* AwaitingEdit or AwaitingDecision forever: there a step is always possible,
\* and no run has more than TurnBudget * (MaxFormatRetries + 2) steps.
C19_ReachesDoneWithinBudget ==
    /\ Len(trace) = Len(judgments) + 1
    /\ Len(trace) <= TurnBudget + 1
    /\ (judgments # <<>> /\ LastJudgment = "Done") => vstate = "Done"
    /\ Len(judgments) >= TurnBudget => vstate = "Done"
    /\ vstate = "Done" => trace[Len(trace)] = "Done"
    /\ vstate \in {"AwaitingEdit", "AwaitingDecision"}
       => (/\ iteration_count < TurnBudget
           /\ ENABLED (SM_ReceivePatch \/ SM_FormatError
                        \/ \E judgment \in Judgments : SM_Judge(judgment)))
    /\ m_steps <= TurnBudget * (MaxFormatRetries + 2)

\* A sequence of judgments without Done, with RedoPatch and RedoTest in it, has
\* used up the budget: the machine is in Done, forced there by the budget.
C19_Witness ==
    /\ vstate = "Done"
    /\ exhausted
    /\ Len(trace) = TurnBudget + 1
    /\ \A i \in 1..Len(judgments) : judgments[i] # "Done"
    /\ \E i \in 1..Len(judgments) : judgments[i] = "RedoPatch"
    /\ \E i \in 1..Len(judgments) : judgments[i] = "RedoTest"

\* The patch received after a RedoPatch judgment was run on a copy of the
\* original tree, not on top of the discarded patch, with the script retained.
NextPatchOnOriginal ==
    (last_action = "receive" /\ last_judged.judgment = "RedoPatch")
    => (/\ vstate = "AwaitingDecision"
        /\ current_patch # last_judged.patch
        /\ last_judged.patch \notin edited_tree
        /\ edited_tree \subseteq {current_patch}
        /\ current_test_script = last_judged.script
        /\ ran_script = last_judged.script)

\* C20 (as stated): a RedoPatch judgment taken in AwaitingDecision leaves the
\* machine in AwaitingEdit without a current patch and with the test script
\* it had; the patch received next is applied to the original tree, not on
\* top of the discarded one.
C20_AsStated ==
    /\ (last_action = "judge" /\ last_judged.judgment = "RedoPatch")
       => (/\ vstate = "AwaitingEdit"
           /\ current_patch = Absent
           /\ current_test_script = last_judged.script)
    /\ NextPatchOnOriginal

\* C20 (amended): a RedoPatch judgment taken in AwaitingDecision before the
\* budget's last turn leaves the machine in AwaitingEdit without a current
\* patch and with the test script it had, and the patch received next is
\* applied to the original tree, not on top of the discarded one; a RedoPatch
\* judgment on the budget's last turn ends the run in Done, which carries
\* the judged patch, the test script unchanged.
C20_RedoPatchDiscardsPatch ==
    /\ (/\ last_action = "judge"
        /\ last_judged.judgment = "RedoPatch"
        /\ iteration_count < TurnBudget)
       => (/\ vstate = "AwaitingEdit"
           /\ current_patch = Absent
           /\ current_test_script = last_judged.script)
    /\ (/\ last_action = "judge"
        /\ last_judged.judgment = "RedoPatch"
        /\ iteration_count >= TurnBudget)
       => (/\ vstate = "Done"
           /\ current_patch = last_judged.patch
           /\ output_patch = last_judged.patch
           /\ current_test_script = last_judged.script)
    /\ NextPatchOnOriginal

\* After a RedoTest and a RedoPatch, the second patch was run with the second
\* script on a tree that holds the second patch only.
C20_Witness ==
    /\ last_action = "receive"
    /\ judgments = <<"RedoTest", "RedoPatch">>
    /\ last_judged.patch = 1
    /\ 1 \in last_judged.tree
    /\ current_patch = 2
    /\ edited_tree = {2}
    /\ ran_script = 2

\* C21 (as stated): a RedoTest judgment taken in AwaitingDecision replaces the
\* current test script by a new one, which is the script run on the unpatched
\* tree and on the patched tree, the tree that holds the current patch; the
\* machine stays in AwaitingDecision and the current patch is the one judged.
\* No judgment changes both the patch and the test script.
C21_RedoTestKeepsPatch ==
    /\ (last_action = "judge" /\ last_judged.judgment = "RedoTest")
       => (/\ vstate = "AwaitingDecision"
           /\ current_test_script # last_judged.script
           /\ ran_script = current_test_script
           /\ current_patch = last_judged.patch
           /\ current_patch # Absent
           /\ edited_tree = {current_patch})
    /\ last_action = "judge"
       => \/ current_patch = last_judged.patch
          \/ current_test_script = last_judged.script

(***************************************************************************)
(*                    MORE CLAIMS ABOUT THE RUNNERS                        *)
(***************************************************************************)

\* The position of a command in GIT_APPLY_CMDS, 0 for any other command.
ApplyCmdIndex(cmd) ==
    IF \E k \in 1..Len(GIT_APPLY_CMDS) : GIT_APPLY_CMDS[k] = cmd
    THEN CHOOSE k \in 1..Len(GIT_APPLY_CMDS) : GIT_APPLY_CMDS[k] = cmd
    ELSE 0

\* C22 (as stated): in run_swebench_test_local the i-th patch command run is
\* the i-th of GIT_APPLY_CMDS; once the loop is over, a command that did not
\* apply the patch (it exited non-zero, or could not be run) and is not the
\* last of the list is followed by the next command of the list, and a command
\* that exited 0 is followed by no other patch command.
C22_NextCommandAfterFailure ==
    call.fn = "run_swebench_test_local"
    => \A i \in 1..Len(log) :
          ApplyCmdIndex(log[i].cmd) # 0
          => /\ ApplyCmdIndex(log[i].cmd) = i
             /\ (pc # "loc_cmd" /\ log[i].exit_code # 0 /\ i < Len(GIT_APPLY_CMDS))
                => (Len(log) > i /\ ApplyCmdIndex(log[i + 1].cmd) = i + 1)
             /\ (log[i].exit_code = 0 /\ Len(log) > i)
                => ApplyCmdIndex(log[i + 1].cmd) = 0

\* Two results are the same outcome: both raise, or both are an
\* ExecutionOutput with the same exit_code and timed_out.
SameOutcome(r, q) ==
    \/ r.kind = "raise" /\ q.kind = "raise"
    \/ /\ r.kind = "output"
       /\ q.kind = "output"
       /\ r.exit_code = q.exit_code
       /\ r.timed_out = q.timed_out

\* Both calls of the pair are over.
BothEnded == n_calls = 2 /\ pc = "idle"

\* The container runner came to the script, a patch command having exited 0 or
\* there being no patch, and raised before the script ran.
ContainerScriptSkipped ==
    /\ first_script_tree = {"none"}
    /\ first_call.patch = "none" \/ first_call.primary = 0 \/ first_call.fuzzy = 0

\* C23 (as stated): execute_script_container and execute_script, called with
\* the same patch presence and the same options, whose git apply, patch --fuzz
\* and script give the same exit codes and the same timeout, end in the same
\* outcome: the same exit_code and timed_out, or both raise. (Runs in which a
\* statement of the patch block or running the script raised, or a runner could
\* not copy the repository or write or start the script, have no result of
\* that step and are left out.)
C23_RunnersEquivalent ==
    (/\ BothEnded
     /\ first_call.fn = "execute_script_container"
     /\ second_call.fn = "execute_script"
     /\ ~first_call.raises
     /\ first_call.script.kind # "error"
     /\ ~ContainerScriptSkipped
     /\ ~CopyFailed
     /\ result.stdout # "Error executing script")
    => SameOutcome(first_result, result)

\* The tracked changes by which two trees differ.
TreeDifference(t, u) == ((t \ u) \cup (u \ t)) \cap TrackedChanges

\* C24 (as stated): when execute_script has run a script without a patch and
\* then the same script with a patch for the same problem, the two trees the
\* script ran on differ by nothing but the changes of the patch, whatever the
\* working tree at repo_location held.
C24_TreesDifferByPatchOnly ==
    (/\ BothEnded
     /\ first_call.fn = "execute_script"
     /\ first_call.patch = "none"
     /\ second_call.fn = "execute_script"
     /\ second_call.patch = "diff"
     /\ first_script_tree # {"none"}
     /\ script_tree # {"none"})
    => TreeDifference(first_script_tree, script_tree) \subseteq {"patch"}

(***************************************************************************)
(*        THE CLAIMS ABOUT run_regression_test_execution_for_patches       *)
(***************************************************************************)

\* C25: whatever the number of workers and the order in which the runs
\* complete, the entries of passing_tests_per_edit are taken from the futures
\* in the order of submission; when the call returns, passing_tests_per_edit
\* is as long as the patch list and its i-th entry is what the run submitted
\* for the i-th patch returned.
C25_ResultsInPatchOrder ==
    /\ Len(passing_tests_per_edit) = Len(collected_from)
    /\ \A i \in 1..Len(collected_from) :
          /\ collected_from[i] = i
          /\ futures[i].state = "done"
          /\ futures[i].patch = patches[i]
          /\ passing_tests_per_edit[i] = futures[i].result
    /\ gpc = "done" => Len(passing_tests_per_edit) = Len(patches)

\* Two workers, two different patches, and the run for the second completed
\* before the run for the first.
C25_Witness ==
    /\ gpc = "done"
    /\ num_threads_per_problem = 2
    /\ patches = <<"diff1", "diff2">>
    /\ completion_order = <<2, 1>>
    /\ passing_tests_per_edit[1] # passing_tests_per_edit[2]
    /\ passing_tests_per_edit[2] = futures[2].result

\* C26 (as stated): what a get_passing_tests call returns are the passing
\* tests of a run made with the patch of the call (the no-op patch for an
\* empty one) and with the test selection of the call (all tests for none).
C26_LogOfSamePatchAndSelection ==
    last_get # NoGet
    => last_get.passing_tests
         = <<"passing", PatchOr(last_get.patch, NOOP_PATCH),
             regression_test_file(last_get.chosen_tests)>>

(***************************************************************************)
(*                  THE CLAIMS ABOUT _run_work                             *)
(***************************************************************************)

\* The work item asked the model and got the response.
Asked == wpc = "done" /\ n_completions > 0

\* C27 (as stated): when the response holds no LOCATIONS block the regex
\* matches, the model is asked again, and the response is not what the store
\* holds as the file's result.
C27_MalformedResponseReprompted ==
    (Asked /\ ~HasLocationsMatch(response))
    => (/\ n_completions > 1
        /\ decision.message # response)

(***************************************************************************)
(*                    THE CLAIMS ABOUT render_stdout                       *)
(***************************************************************************)

\* C28: render_stdout returns the timed-out placeholder when timed_out is
\* true, whatever stdout holds; else the no-output placeholder when stdout is
\* None; else stdout itself when max_chars is None or stdout is no longer than
\* max_chars; else the truncated form of stdout for max_chars, which starts
\* with the truncation header and is not stdout.
C28_RenderPrecedence ==
    xpc = "done"
    => IF self_timed_out THEN rendered = TIMED_OUT_PLACEHOLDER
       ELSE IF IsNone(self_stdout) THEN rendered = NO_OUTPUT_PLACEHOLDER
       ELSE IF IsNone(max_chars) \/ Len(self_stdout[1]) <= max_chars[1]
       THEN rendered = self_stdout[1]
       ELSE /\ rendered = truncate_output(self_stdout[1], max_chars[1])
            /\ HasAt(rendered, 1, TRUNCATION_HEADER)
            /\ rendered # self_stdout[1]

\* A run that timed out and has no stdout renders as the timed-out placeholder.
C28_Witness ==
    /\ xpc = "done"
    /\ self_timed_out
    /\ IsNone(self_stdout)
    /\ max_chars = <<2>>
    /\ rendered = TIMED_OUT_PLACEHOLDER
    /\ rendered # NO_OUTPUT_PLACEHOLDER

(***************************************************************************)
(*                    ANOTHER CLAIM ABOUT create_patch                     *)
(***************************************************************************)

\* C29 (as stated): a file has no edit in the result if and only if its old
\* and its new content are the same text; two texts that differ, be it by
\* empty lines at the end or by the final line break, give the file an edit.
C29_NoEditIffIdentical ==
    ppc = "done"
    => \A k \in 1..Len(file_names) :
          EditsOf(k) = {} <=> old_contents[k] = new_contents[k]

(***************************************************************************)
(*                   THE CLAIM ABOUT get_test_command                      *)
(***************************************************************************)

\* C30 (as stated): the command returned is that of the first listed project
\* whose name occurs in the repo identifier; a repo whose identifier holds
\* django-cms gets the command listed for django-cms, as every listed project
\* has a repo that gets its command; a repo in which no listed name occurs
\* gets pytest -rA.
C30_CommandOfListedProject ==
    qpc = "done"
    => (/\ \A k \in 1..Len(ListedProjects) :
              (/\ OccursIn(ListedProjects[k].name, repo)
               /\ \A j \in 1..(k - 1) : ~OccursIn(ListedProjects[j].name, repo))
              => test_command = ListedProjects[k].command
        /\ OccursIn(<<"django", "-cms">>, repo)
              => test_command = "./tests/runtests.py --verbosity 2"
        /\ (\A k \in 1..Len(ListedProjects) : ~OccursIn(ListedProjects[k].name, repo))
              => test_command = "pytest -rA")

====
